---- MODULE Spec2Model ----
(***************************************************************************)
(* A model of the UTCP knowledge-base pipeline of jcmrs/qwen-utcp:         *)
(* extraction (utcp_kb_extractor.py, basic_utcp_extractor.py), processing  *)
(* (utcp_kb_processor.py, basic_utcp_processor.py), lexical indexing       *)
(* (basic_utcp_ai_optimizer.py) and the query object (utcp_kb_api.py).     *)
(*                                                                         *)
(* Text is modelled by TLA+ strings, a Python dict by a record or a        *)
(* function with a string domain, a Python list by a sequence.  A call of  *)
(* datetime.now() is the value of the model's clock, counted in seconds    *)
(* (the resolution of the extraction file names).  Strengths are counted   *)
(* in tenths (0.5 is 5, 0.8 is 8, 1.0 is 10).                              *)
(***************************************************************************)
EXTENDS Integers, Sequences, FiniteSets, TLC

(***************************************************************************)
(* Bounds of the model.                                                    *)
(***************************************************************************)
\* at most MaxRaw extraction runs, hence at most MaxRaw raw extraction documents
MaxRaw == 2

(***************************************************************************)
(* Python's str and list operations, computed as Python computes them.     *)
(***************************************************************************)
Char(s, i) == SubSeq(s, i, i)

\* the ASCII letters: upper case -> lower case
LOWER ==
  [A |-> "a", B |-> "b", C |-> "c", D |-> "d", E |-> "e", F |-> "f", G |-> "g",
   H |-> "h", I |-> "i", J |-> "j", K |-> "k", L |-> "l", M |-> "m", N |-> "n",
   O |-> "o", P |-> "p", Q |-> "q", R |-> "r", S |-> "s", T |-> "t", U |-> "u",
   V |-> "v", W |-> "w", X |-> "x", Y |-> "y", Z |-> "z"]

\* str.lower() on one character
LowerChar(c) == IF c \in DOMAIN LOWER THEN LOWER[c] ELSE c

\* s[lo-1:hi].lower(), character by character
RECURSIVE LowerIn(_, _, _)
LowerIn(s, lo, hi) ==
  IF lo > hi THEN ""
  ELSE IF lo = hi THEN LowerChar(Char(s, lo))
  ELSE LowerIn(s, lo, (lo + hi) \div 2) \o LowerIn(s, (lo + hi) \div 2 + 1, hi)

\* s.lower()
Lower(s) == LowerIn(s, 1, Len(s))

\* needle in hay
Contains(hay, needle) ==
  \E i \in 1..(Len(hay) - Len(needle) + 1) :
    SubSeq(hay, i, i + Len(needle) - 1) = needle

\* s.endswith(suf)
EndsWith(s, suf) ==
  /\ Len(suf) <= Len(s)
  /\ SubSeq(s, Len(s) - Len(suf) + 1, Len(s)) = suf

IsSpace(c) == c \in {" ", "\t", "\n"}

\* s.strip()
RECURSIVE Strip(_)
Strip(s) ==
  IF s = "" THEN ""
  ELSE IF IsSpace(Char(s, 1)) THEN Strip(SubSeq(s, 2, Len(s)))
  ELSE IF IsSpace(Char(s, Len(s))) THEN Strip(SubSeq(s, 1, Len(s) - 1))
  ELSE s

\* the maximal runs of characters that are not separators, in order
Runs(s, IsSep(_)) ==
  LET IsStart(i) == ~IsSep(Char(s, i)) /\ (i = 1 \/ IsSep(Char(s, i - 1)))
      IsEnd(i) == ~IsSep(Char(s, i)) /\ (i = Len(s) \/ IsSep(Char(s, i + 1)))
      starts == SelectSeq([i \in 1..Len(s) |-> i], IsStart)
      ends == SelectSeq([i \in 1..Len(s) |-> i], IsEnd)
  IN  [n \in 1..Len(starts) |-> SubSeq(s, starts[n], ends[n])]

\* s.split()
Split(s) == Runs(s, IsSpace)

IsSlash(c) == c = "/"

\* Path(p).parts for a relative POSIX path: the non-empty segments between "/"
PathParts(p) == Runs(p, IsSlash)

\* d.get(key, default) on a dict modelled as a record
Get(d, key, default) == IF key \in DOMAIN d THEN d[key] ELSE default

\* the lists ss[lo], ..., ss[hi] joined
RECURSIVE ConcatIn(_, _, _)
ConcatIn(ss, lo, hi) ==
  IF lo > hi THEN <<>>
  ELSE IF lo = hi THEN ss[lo]
  ELSE ConcatIn(ss, lo, (lo + hi) \div 2) \o ConcatIn(ss, (lo + hi) \div 2 + 1, hi)

\* [x for s in ss for x in s]
Concat(ss) == ConcatIn(ss, 1, Len(ss))

\* the orders in which the members of a finite set can be listed
Orders(S) ==
  {s \in [1..Cardinality(S) -> S] : \A i, j \in 1..Cardinality(S) : s[i] = s[j] => i = j}

\* the set of members of a list
Range(s) == {s[i] : i \in 1..Len(s)}

\* str.upper() on one character
UpperChar(c) ==
  IF \E u \in DOMAIN LOWER : LOWER[u] = c THEN CHOOSE u \in DOMAIN LOWER : LOWER[u] = c
  ELSE c

IsAlpha(c) == c \in DOMAIN LOWER \/ \E u \in DOMAIN LOWER : LOWER[u] = c

\* s.title(): a letter that follows a non-letter is upper-cased, any other letter lower-cased
RECURSIVE TitleFrom(_, _)
TitleFrom(s, i) ==
  IF i > Len(s) THEN ""
  ELSE (IF i > 1 /\ IsAlpha(Char(s, i - 1)) THEN LowerChar(Char(s, i)) ELSE UpperChar(Char(s, i)))
       \o TitleFrom(s, i + 1)

Title(s) == TitleFrom(s, 1)

\* s.replace(a, b) for one-character a and b
RECURSIVE ReplaceFrom(_, _, _, _)
ReplaceFrom(s, a, b, i) ==
  IF i > Len(s) THEN ""
  ELSE (IF Char(s, i) = a THEN b ELSE Char(s, i)) \o ReplaceFrom(s, a, b, i + 1)

Replace(s, a, b) == ReplaceFrom(s, a, b, 1)

\* s[:n] + "..." if len(s) > n else s
Ellipsis(s, n) == IF Len(s) > n THEN SubSeq(s, 1, n) \o "..." ELSE s

\* Path(p).name and Path(p).suffix.lower()
FileName(p) == LET parts == PathParts(p) IN IF parts = <<>> THEN "" ELSE parts[Len(parts)]

Suffix(p) ==
  LET name == FileName(p)
      dots == {i \in 2..Len(name) : Char(name, i) = "."}
  IN  IF dots = {} \/ Char(name, Len(name)) = "." THEN ""
      ELSE LET d == CHOOSE i \in dots : \A j \in dots : j <= i
           IN  Lower(SubSeq(name, d, Len(name)))

(***************************************************************************)
(* The repositories under UPSTREAM/ and what a scan of them can find.  A   *)
(* source file is given by its path below the repository and by what the   *)
(* extractor's patterns find in its content:                               *)
(*   readable   open()/read() succeeds                                     *)
(*   hasSpec    'spec' occurs in content.lower()                           *)
(*   heading    the text of the first "# " or "title:" line, "" if none    *)
(*   summary    the joined summary lines                                   *)
(*   words      the matches of extract_key_terms' pattern                  *)
(*   terms      the matches of extract_key_terms_basic's patterns          *)
(*   functions, classes   the matches of the declaration patterns          *)
(*   sections   the markdown headers, in order                             *)
(*   specElems  each pattern of extract_spec_elements has a match          *)
(***************************************************************************)
REPO_NAMES == <<"go-utcp", "python-utcp">>
Repos == {REPO_NAMES[i] : i \in 1..Len(REPO_NAMES)}

README ==
  [path |-> "README.md", readable |-> TRUE, hasSpec |-> FALSE,
   heading |-> "UTCP API v1", summary |-> "UTCP API  1.0.0",
   words |-> {"UTCP", "API"}, terms |-> {"UTCP", "python-utcp"},
   functions |-> {}, classes |-> {}, sections |-> <<"UTCP API v1">>, specElems |-> FALSE]

LOCKED ==
  [path |-> "notes.txt", readable |-> FALSE, hasSpec |-> FALSE,
   heading |-> "", summary |-> "", words |-> {}, terms |-> {},
   functions |-> {}, classes |-> {}, sections |-> <<>>, specElems |-> FALSE]

CLIENT ==
  [path |-> "src/client.py", readable |-> TRUE, hasSpec |-> FALSE,
   heading |-> "", summary |-> "def run",
   words |-> {"protocol"}, terms |-> {"UTCP"},
   functions |-> {"run", "Tool"}, classes |-> {"Tool"}, sections |-> <<>>, specElems |-> FALSE]

DESIGN ==
  [path |-> "docs/design.md", readable |-> TRUE, hasSpec |-> TRUE,
   heading |-> "", summary |-> "Tools should be called directly",
   words |-> {"Tools"}, terms |-> {"API"},
   functions |-> {}, classes |-> {}, sections |-> <<>>, specElems |-> FALSE]

\* a work tree: the HEAD commit and the files scan_repository returns, in walk order
Worktrees(repo) ==
  IF repo = "python-utcp"
    THEN {[commit_hash |-> "a1", files |-> <<LOCKED, README, DESIGN>>]}
    ELSE {[commit_hash |-> "b1", files |-> <<CLIENT>>]}

\* list(set(matches))[:cap]: the distinct matches in an order that depends on the
\* process's string hashing, cut at cap
KEY_TERM_CAP == 20
Take(s, n) == IF Len(s) > n THEN SubSeq(s, 1, n) ELSE s
ListOfSet(S) == Orders(S)
CappedListOfSet(S, cap) == {Take(s, cap) : s \in Orders(S)}

(***************************************************************************)
(* utcp_kb_extractor.py                                                    *)
(***************************************************************************)
CODE_SUFFIXES == {".py", ".ts", ".js", ".go", ".rs", ".ex"}

identify_content_type(file_path, hasSpec) ==
  LET p == Lower(file_path)
      suffix == Suffix(file_path)
  IN  IF Contains(p, "specification") \/ hasSpec THEN "specification"
      ELSE IF Contains(p, "readme") THEN "documentation"
      ELSE IF Contains(p, "test") \/ Contains(p, "spec") THEN "test"
      ELSE IF suffix \in CODE_SUFFIXES THEN "code"
      ELSE IF suffix \in {".md", ".rst"} THEN "documentation"
      ELSE IF suffix \in {".json", ".yaml", ".yml"} THEN "configuration"
      ELSE "other"

extract_title(f) == IF f.heading # "" THEN f.heading ELSE "No Title Found"

\* the dicts extract_by_content_type can return for file f of type ct; the choice is
\* the order in which the sets of matches are listed
extract_by_content_type(f, ct) ==
  LET base(kt) == [title |-> extract_title(f), summary |-> Ellipsis(f.summary, 200),
                   key_terms |-> kt]
  IN  IF ct = "code"
        THEN {[title |-> base(kt).title, summary |-> base(kt).summary, key_terms |-> kt,
               functions |-> fs, classes |-> cs] :
                 kt \in CappedListOfSet(f.words, KEY_TERM_CAP),
                 fs \in ListOfSet(f.functions), cs \in ListOfSet(f.classes)}
      ELSE IF ct = "documentation"
        THEN {[title |-> base(kt).title, summary |-> base(kt).summary, key_terms |-> kt,
               sections |-> f.sections] : kt \in CappedListOfSet(f.words, KEY_TERM_CAP)}
      ELSE {base(kt) : kt \in CappedListOfSet(f.words, KEY_TERM_CAP)}

\* extract_spec_elements indexes matches[0] of each pattern: IndexError when one is empty
SpecElementsRaise(f, ct) == ct = "specification" /\ ~f.specElems

\* a facts record without content, as an extraction that does not tell a failure apart
EmptyFacts(file_path, err, now) ==
  [file_path |-> file_path, content_type |-> "other",
   extracted_info |-> [title |-> "", summary |-> "", key_terms |-> <<>>],
   title |-> "", summary |-> "", key_terms |-> <<>>, timestamp |-> now]

\* except Exception as e: the record returned for a file whose extraction raised
ErrorMarker(file_path, err, now) ==
  [file_path |-> file_path, error |-> err, timestamp |-> now]

\* the records extract_content can return for file f at path file_path
extract_content(f, file_path, now) ==
  LET ct == identify_content_type(file_path, f.hasSpec)
  IN  IF ~f.readable THEN {ErrorMarker(file_path, "PermissionError", now)}
      ELSE IF SpecElementsRaise(f, ct) THEN {ErrorMarker(file_path, "IndexError", now)}
      ELSE {[file_path |-> file_path, content_type |-> ct, extracted_info |-> info,
             timestamp |-> now] : info \in extract_by_content_type(f, ct)}

(***************************************************************************)
(* basic_utcp_extractor.py                                                 *)
(***************************************************************************)
extract_title_basic(f) ==
  IF f.heading # "" THEN f.heading
  ELSE Title(Replace(Replace(FileName(f.path), "_", " "), "-", " "))

basic_content_type(file_path) ==
  LET suffix == Suffix(file_path)
  IN  IF suffix \in {".md", ".rst"} THEN "documentation"
      ELSE IF suffix \in CODE_SUFFIXES THEN "code"
      ELSE IF suffix \in {".json", ".yaml", ".yml"} THEN "configuration"
      ELSE "other"

extract_content_basic(f, file_path, now) ==
  IF ~f.readable THEN {ErrorMarker(file_path, "PermissionError", now)}
  ELSE {[file_path |-> file_path, content_type |-> basic_content_type(file_path),
         title |-> extract_title_basic(f), summary |-> Ellipsis(f.summary, 200),
         key_terms |-> kt, timestamp |-> now] :
           kt \in CappedListOfSet(f.terms, KEY_TERM_CAP)}

(***************************************************************************)
(* extract_from_repository / extract_from_repository_basic: the documents  *)
(* one extraction run over work tree wt of repository repo can write.      *)
(***************************************************************************)
FilePath(repo, f) == "UPSTREAM/" \o repo \o "/" \o f.path

\* the lists [extract(f) for f in files], one choice per file
RECURSIVE ExtractEach(_, _, _, _)
ExtractEach(variant, repo, files, now) ==
  IF files = <<>> THEN {<<>>}
  ELSE LET f == Head(files)
           one == IF variant = "full" THEN extract_content(f, FilePath(repo, f), now)
                                      ELSE extract_content_basic(f, FilePath(repo, f), now)
       IN  {<<e>> \o rest : e \in one, rest \in ExtractEach(variant, repo, Tail(files), now)}

\* the document of one run; the commit date, which the processors copy or ignore, is
\* left out
RepoExtractions(variant, repo, wt, now) ==
  {[repository |-> repo, commit_hash |-> wt.commit_hash, file_count |-> Len(wt.files),
    extractions |-> ex, timestamp |-> now] : ex \in ExtractEach(variant, repo, wt.files, now)}


(***************************************************************************)
(* List comprehensions used by the processors.                             *)
(***************************************************************************)
\* [(x, y) for x in s for y in s if x != y]: every pair in both orders
OrderedPairs(s) ==
  LET all == [k \in 1..(Len(s) * Len(s)) |->
                <<s[((k - 1) \div Len(s)) + 1], s[((k - 1) % Len(s)) + 1]>>]
      Apart(pr) == pr[1] # pr[2]
  IN  SelectSeq(all, Apart)

\* [(s[i], y) for i, x in enumerate(s) for y in s[i+1:]], in loop order
Pairs(s) == Concat([i \in 1..Len(s) |-> [j \in 1..(Len(s) - i) |-> <<s[i], s[i + j]>>]])

\* [(x, y) for x in a for y in b], in loop order
Cross(a, b) ==
  [k \in 1..(Len(a) * Len(b)) |-> <<a[((k - 1) \div Len(b)) + 1], b[((k - 1) % Len(b)) + 1]>>]

Differ(pr) == pr[1] # pr[2]

\* the distinct members of a list, in first-seen order (the key order of a dict or Counter)
RECURSIVE FirstSeenIn(_, _, _)
FirstSeenIn(s, lo, hi) ==
  IF lo > hi THEN <<>>
  ELSE IF lo = hi THEN <<s[lo]>>
  ELSE LET seen == FirstSeenIn(s, lo, (lo + hi) \div 2)
           later == FirstSeenIn(s, (lo + hi) \div 2 + 1, hi)
           IsNew(x) == x \notin Range(seen)
       IN  seen \o SelectSeq(later, IsNew)

FirstSeen(s) == FirstSeenIn(s, 1, Len(s))

Count(s, x) == Cardinality({i \in 1..Len(s) : s[i] = x})

\* str(n) for n >= 0
Digit(d) == CASE d = 0 -> "0" [] d = 1 -> "1" [] d = 2 -> "2" [] d = 3 -> "3" [] d = 4 -> "4"
              [] d = 5 -> "5" [] d = 6 -> "6" [] d = 7 -> "7" [] d = 8 -> "8" [] OTHER -> "9"

RECURSIVE Str(_)
Str(n) == IF n < 10 THEN Digit(n) ELSE Str(n \div 10) \o Digit(n % 10)

\* sep.join(s)
RECURSIVE Join(_, _)
Join(s, sep) ==
  IF s = <<>> THEN ""
  ELSE IF Len(s) = 1 THEN s[1]
  ELSE s[1] \o sep \o Join(Tail(s), sep)

(***************************************************************************)
(* utcp_kb_processor.py: concepts and relationships of one facts record.   *)
(* A processing run uses the fallback of load_nlp_model (self.nlp = None). *)
(***************************************************************************)
Concept(name, type, repo, file, context, description, tags, now) ==
  [name |-> name, type |-> type, source_repo |-> repo, source_file |-> file,
   context |-> context, description |-> description, tags |-> tags, timestamp |-> now]

Relationship(source, target, type, strength, repo, file, context, now) ==
  [source |-> source, target |-> target, type |-> type, strength |-> strength,
   source_repo |-> repo, source_file |-> file, context |-> context, timestamp |-> now]

\* the fixed strengths, in tenths
SAME_FILE_STRENGTH == 10
CONTAINS_STRENGTH == 8
CO_OCCURRENCE_STRENGTH == 5

\* doc.ents of the NLP model: none when self.nlp is None
NoEntities == <<>>

\* for ent in doc.ents: the concepts of the named entities the NLP model found
entity_concepts(repo, file_path, info, ents, now) ==
  LET kept == SelectSeq(ents, LAMBDA ent : Len(Strip(ent.text)) > 2)
  IN  [k \in 1..Len(kept) |->
         Concept(kept[k].text, kept[k].label_, repo, file_path, Get(info, "title", ""),
                 kept[k].text, <<"nlp", "entity">>, now)]

\* ents: the named entities the NLP model finds in content[:10000]
extract_concepts_from_extraction(repo, file_path, content_type, info, ents, now) ==
  LET title == Get(info, "title", "")
      summary == Get(info, "summary", "")
      funcs == Get(info, "functions", <<>>)
      clss == Get(info, "classes", <<>>)
      secs == Get(info, "sections", <<>>)
      terms == Get(info, "key_terms", <<>>)
      typed ==
        IF content_type = "code"
          THEN [k \in 1..Len(funcs) |->
                  Concept(funcs[k], "function", repo, file_path, title, summary,
                          <<"code", "function">>, now)]
               \o [k \in 1..Len(clss) |->
                  Concept(clss[k], "class", repo, file_path, title, summary,
                          <<"code", "class">>, now)]
        ELSE IF content_type \in {"documentation", "specification"}
          THEN [k \in 1..Len(secs) |->
                  Concept(secs[k], "section", repo, file_path, title, summary,
                          <<"documentation", "section">>, now)]
        ELSE <<>>
  IN  typed
      \o [k \in 1..Len(terms) |->
            Concept(terms[k], "term", repo, file_path, title, summary, <<"term">>, now)]
      \o entity_concepts(repo, file_path, info, ents, now)

SameFileRelationships(repo, file_path, functions, now) ==
  LET prs == SelectSeq(Pairs(functions), Differ)
  IN  [k \in 1..Len(prs) |->
         Relationship(prs[k][1], prs[k][2], "same_file", SAME_FILE_STRENGTH, repo, file_path,
                      "Both functions appear in " \o file_path, now)]

ClassFunctionRelationships(repo, file_path, classes, functions, now) ==
  LET prs == Cross(classes, functions)
  IN  [k \in 1..Len(prs) |->
         Relationship(prs[k][1], prs[k][2], "contains", CONTAINS_STRENGTH, repo, file_path,
                      "Class " \o prs[k][1] \o " may contain or use function " \o prs[k][2], now)]

\* co-occurrence relationships whose strength grows with the number of key terms
KeyTermRelationshipsByCount(repo, file_path, key_terms, now) ==
  LET prs == SelectSeq(Pairs(key_terms), Differ)
  IN  [k \in 1..Len(prs) |->
         Relationship(prs[k][1], prs[k][2], "co_occurrence",
                      CO_OCCURRENCE_STRENGTH + Len(key_terms), repo, file_path,
                      "Terms '" \o prs[k][1] \o "' and '" \o prs[k][2]
                        \o "' appear in the same document", now)]

KeyTermRelationships(repo, file_path, key_terms, now) ==
  LET prs == SelectSeq(Pairs(key_terms), Differ)
  IN  [k \in 1..Len(prs) |->
         Relationship(prs[k][1], prs[k][2], "co_occurrence", CO_OCCURRENCE_STRENGTH, repo,
                      file_path,
                      "Terms '" \o prs[k][1] \o "' and '" \o prs[k][2]
                        \o "' appear in the same document", now)]

extract_relationships_from_extraction(repo, file_path, content_type, info, now) ==
  LET functions == Get(info, "functions", <<>>)
      classes == Get(info, "classes", <<>>)
      code == IF content_type = "code"
                THEN SameFileRelationships(repo, file_path, functions, now)
                     \o ClassFunctionRelationships(repo, file_path, classes, functions, now)
                ELSE <<>>
  IN  code \o KeyTermRelationships(repo, file_path, Get(info, "key_terms", <<>>), now)

\* 'error' in extraction
IsErrorRecord(e) == "error" \in DOMAIN e

\* process_extraction: (concepts, relationships) of one extraction document
RECURSIVE process_entries(_, _, _)
process_entries(repo, entries, now) ==
  IF entries = <<>> THEN [concepts |-> <<>>, relationships |-> <<>>]
  ELSE LET e == Head(entries)
           rest == process_entries(repo, Tail(entries), now)
       IN  IF IsErrorRecord(e) THEN rest
           ELSE [concepts |->
                   extract_concepts_from_extraction(repo, e.file_path, e.content_type,
                                                    e.extracted_info, NoEntities, now)
                   \o rest.concepts,
                 relationships |->
                   extract_relationships_from_extraction(repo, e.file_path, e.content_type,
                                                         e.extracted_info, now)
                   \o rest.relationships]

process_extraction(doc, now) == process_entries(doc.repository, doc.extractions, now)


(***************************************************************************)
(* utcp_kb_processor.py: the wisdom lists.                                 *)
(***************************************************************************)
PRINCIPLE_INDICATORS ==
  {"principle", "pattern", "design", "architecture", "protocol", "standard",
   "specification", "rule", "guideline"}

PATTERN_INDICATORS ==
  {"pattern", "architecture", "design", "model", "approach", "method", "strategy",
   "technique", "implementation"}

PRACTICE_INDICATORS ==
  {"best practice", "recommendation", "guideline", "should", "must", "advice", "tip",
   "approach", "method", "procedure"}

WisdomItem(c, name, now) ==
  [name |-> name, description |-> c.description, source_repo |-> c.source_repo,
   source_file |-> c.source_file, context |-> c.context, timestamp |-> now]

\* the principles added whatever the input
utcp_principles(now) ==
  << [name |-> "Universal Tool Calling",
      description |-> "A protocol that lets AI agents call any native endpoint, over any channel - directly and without wrappers",
      source_repo |-> "utcp-specification", source_file |-> "specification",
      context |-> "Core UTCP principle", timestamp |-> now],
     [name |-> "Direct Tool Access",
      description |-> "AI agents can call tools directly without extra middleware",
      source_repo |-> "utcp-specification", source_file |-> "specification",
      context |-> "Core UTCP principle", timestamp |-> now] >>

NameHas(indicators, c) ==
  LET name == Lower(c.name) IN \E ind \in indicators : Contains(name, ind)

extract_principles(concepts, now) ==
  LET IsPrinciple(c) == NameHas(PRINCIPLE_INDICATORS, c)
      hits == SelectSeq(concepts, IsPrinciple)
  IN  [k \in 1..Len(hits) |-> WisdomItem(hits[k], hits[k].name, now)] \o utcp_principles(now)

extract_patterns(concepts, now) ==
  LET IsPattern(c) == NameHas(PATTERN_INDICATORS, c)
      hits == SelectSeq(concepts, IsPattern)
  IN  [k \in 1..Len(hits) |-> WisdomItem(hits[k], hits[k].name, now)]

extract_best_practices(concepts, now) ==
  LET IsPractice(c) ==
        /\ c.type \in {"comment", "documentation", "section"}
        /\ \E ind \in PRACTICE_INDICATORS : Contains(Lower(c.description), ind)
      hits == SelectSeq(concepts, IsPractice)
  IN  [k \in 1..Len(hits) |-> WisdomItem(hits[k], "Best Practice: " \o hits[k].name, now)]

\* relationship['strength'] > 0.7
INSIGHT_THRESHOLD == 7

\* an insight for every relationship, whatever its strength
insights_of_all(relationships, now) ==
  [k \in 1..Len(relationships) |->
     [name |-> "Relationship: " \o relationships[k].source \o " -> " \o relationships[k].target,
      description |-> relationships[k].context, type |-> relationships[k].type,
      strength |-> relationships[k].strength, source_repo |-> relationships[k].source_repo,
      source_file |-> relationships[k].source_file, timestamp |-> now]]

extract_insights(relationships, now) ==
  LET IsStrong(r) == r.strength > INSIGHT_THRESHOLD
      hits == SelectSeq(relationships, IsStrong)
  IN  [k \in 1..Len(hits) |->
         [name |-> "Relationship: " \o hits[k].source \o " -> " \o hits[k].target,
          description |-> hits[k].context, type |-> hits[k].type,
          strength |-> hits[k].strength, source_repo |-> hits[k].source_repo,
          source_file |-> hits[k].source_file, timestamp |-> now]]

(***************************************************************************)
(* basic_utcp_processor.py                                                 *)
(***************************************************************************)
PATH_EXTENSIONS == {".py", ".ts", ".js", ".go", ".rs", ".ex", ".md", ".json", ".yaml", ".yml"}

IsPathConcept(part) == Len(part) > 2 /\ ~(\E ext \in PATH_EXTENSIONS : EndsWith(part, ext))

extract_concepts_basic(repo, file_path, content_type, title, summary, key_terms, now) ==
  LET titled == IF title # "" /\ title # "No Title Found"
                  THEN << Concept(title, "title", repo, file_path, Ellipsis(summary, 100),
                                  summary, <<content_type, "title">>, now) >>
                  ELSE <<>>
      parts == SelectSeq(PathParts(file_path), IsPathConcept)
  IN  titled
      \o [k \in 1..Len(key_terms) |->
            Concept(key_terms[k], "term", repo, file_path, title, summary,
                    <<content_type, "term">>, now)]
      \o [k \in 1..Len(parts) |->
            Concept(parts[k], "path_component", repo, file_path, title,
                    "Part of file path: " \o file_path, <<"path", "structure">>, now)]

BasicTermRelationships(repo, file_path, key_terms, now) ==
  LET prs == SelectSeq(Pairs(key_terms), Differ)
  IN  [k \in 1..Len(prs) |->
         Relationship(prs[k][1], prs[k][2], "co_occurrence", CO_OCCURRENCE_STRENGTH, repo,
                      file_path,
                      "Terms '" \o prs[k][1] \o "' and '" \o prs[k][2]
                        \o "' appear in the same file: " \o file_path, now)]

RepoTermRelationships(repo, file_path, key_terms, now) ==
  [k \in 1..Len(key_terms) |->
     Relationship(repo, key_terms[k], "contains", CONTAINS_STRENGTH, repo, file_path,
                  "Repository " \o repo \o " contains term '" \o key_terms[k] \o "'", now)]

extract_relationships_basic(repo, file_path, key_terms, now) ==
  BasicTermRelationships(repo, file_path, key_terms, now)
  \o RepoTermRelationships(repo, file_path, key_terms, now)

RECURSIVE process_entries_basic(_, _, _)
process_entries_basic(repo, entries, now) ==
  IF entries = <<>> THEN [concepts |-> <<>>, relationships |-> <<>>]
  ELSE LET e == Head(entries)
           rest == process_entries_basic(repo, Tail(entries), now)
           key_terms == Get(e, "key_terms", <<>>)
       IN  IF IsErrorRecord(e) THEN rest
           ELSE [concepts |->
                   extract_concepts_basic(repo, e.file_path, e.content_type,
                                          Get(e, "title", ""), Get(e, "summary", ""),
                                          key_terms, now)
                   \o rest.concepts,
                 relationships |->
                   extract_relationships_basic(repo, e.file_path, key_terms, now)
                   \o rest.relationships]

process_extraction_basic(doc, now) ==
  process_entries_basic(doc.repository, doc.extractions, now)

\* extract_wisdom_basic: the names seen in more than one repository.  hashOrder is
\* the order in which this process lists a set of repository names.
basic_principles(concepts, hashOrder, now) ==
  LET names == FirstSeen([k \in 1..Len(concepts) |-> concepts[k].name])
      ReposOf(n) == {concepts[k].source_repo : k \in {j \in 1..Len(concepts) : concepts[j].name = n}}
      Potential(n) == Cardinality(ReposOf(n)) > 1 /\ Len(n) > 3
      terms == SelectSeq(names, Potential)
      ListOf(S) == LET In(r) == r \in S IN SelectSeq(hashOrder, In)
  IN  [k \in 1..Len(terms) |->
         [name |-> terms[k],
          description |-> "Concept '" \o terms[k] \o "' appears in multiple repositories: "
                            \o Join(ListOf(ReposOf(terms[k])), ", "),
          source_repositories |-> ListOf(ReposOf(terms[k])),
          timestamp |-> now]]

\* Counter(...).most_common(): by falling count, equal counts in first-seen order
RECURSIVE MostCommon(_, _)
MostCommon(keys, all) ==
  IF keys = <<>> THEN <<>>
  ELSE LET best == CHOOSE i \in 1..Len(keys) :
                     /\ \A j \in 1..Len(keys) : Count(all, keys[j]) <= Count(all, keys[i])
                     /\ \A j \in 1..(i - 1) : Count(all, keys[j]) < Count(all, keys[i])
           IsOther(x) == x # keys[best]
       IN  <<keys[best]>> \o MostCommon(SelectSeq(keys, IsOther), all)

basic_patterns(relationships, now) ==
  LET types == [k \in 1..Len(relationships) |-> relationships[k].type]
      common == Take(MostCommon(FirstSeen(types), types), 10)
  IN  [k \in 1..Len(common) |->
         [name |-> common[k] \o "_pattern",
          description |-> "Relationship pattern '" \o common[k] \o "' appears "
                            \o Str(Count(types, common[k])) \o " times",
          frequency |-> Count(types, common[k]),
          timestamp |-> now]]


(***************************************************************************)
(* The files below .utcp-kb.  A file is absent, of zero length (as         *)
(* open(path, 'w') leaves it until json.dump has written) or holds a JSON  *)
(* document.                                                               *)
(***************************************************************************)
FULL_CONCEPTS == "processed-knowledge/concepts/all_concepts.json"
FULL_RELATIONSHIPS == "processed-knowledge/relationships/all_relationships.json"
FULL_REPOSITORIES == "processed-knowledge/repositories/all_repositories.json"
FULL_EVOLUTION == "processed-knowledge/evolution/all_evolution.json"
BASIC_CONCEPTS == "processed-knowledge/all_concepts.json"
BASIC_RELATIONSHIPS == "processed-knowledge/all_relationships.json"
PRINCIPLES == "wisdom/principles/all_principles.json"
PATTERNS == "wisdom/patterns/all_patterns.json"
BEST_PRACTICES == "wisdom/best_practices/all_best_practices.json"
INSIGHTS == "wisdom/insights/all_insights.json"
FULL_CONCEPT_SUMMARY == "processed-knowledge/concepts/summary.json"
FULL_RELATIONSHIP_SUMMARY == "processed-knowledge/relationships/summary.json"
FULL_REPOSITORY_SUMMARY == "processed-knowledge/repositories/summary.json"
BASIC_CONCEPT_SUMMARY == "processed-knowledge/concepts_summary.json"
BASIC_RELATIONSHIP_SUMMARY == "processed-knowledge/relationships_summary.json"
CONCEPT_INDEX == "ai-optimized/indexes/concept_index.json"
RELATIONSHIP_INDEX == "ai-optimized/indexes/relationship_index.json"

WISDOM_SUMMARY == "wisdom/summary.json"
EXTRACTION_SUMMARY == "metadata/extraction_summary.json"
BASIC_CONCEPT_EMBEDDINGS == "ai-optimized/embeddings/concept_embeddings.json"
BASIC_RELATIONSHIP_EMBEDDINGS == "ai-optimized/embeddings/relationship_embeddings.json"
COMPREHENSIVE_SUMMARY == "ai-optimized/summaries/comprehensive_summary.json"
\* the files topic_<topic>_summary.json of ai-optimized/summaries, as one directory entry
TOPIC_SUMMARIES == "ai-optimized/summaries/topic_*_summary.json"

wisdom_categories == <<"principles", "patterns", "best_practices", "insights">>

\* the collections process_*_for_ai embed, in the order of generate_embeddings
EMBEDDED == <<"concepts", "relationships", "repositories">> \o wisdom_categories

\* f".utcp-kb/wisdom/{category}/all_{category}.json", and the three collections
CollectionPath(name) ==
  CASE name = "concepts" -> FULL_CONCEPTS
    [] name = "relationships" -> FULL_RELATIONSHIPS
    [] name = "repositories" -> FULL_REPOSITORIES
    [] OTHER -> "wisdom/" \o name \o "/all_" \o name \o ".json"

\* embeddings_dir / f"{name}_embeddings.npy" and embeddings_dir / f"{name}_metadata.json"
EmbeddingsPath(name) == "ai-optimized/embeddings/" \o name \o "_embeddings.npy"
MetadataPath(name) == "ai-optimized/embeddings/" \o name \o "_metadata.json"
\* embeddings_dir / f"{name}.index"
IndexPath(name) == "ai-optimized/embeddings/" \o name \o ".index"

Paths ==
  {FULL_CONCEPTS, FULL_RELATIONSHIPS, FULL_REPOSITORIES, FULL_EVOLUTION, BASIC_CONCEPTS,
   BASIC_RELATIONSHIPS, PRINCIPLES, PATTERNS, BEST_PRACTICES, INSIGHTS, CONCEPT_INDEX,
   RELATIONSHIP_INDEX, FULL_CONCEPT_SUMMARY, FULL_RELATIONSHIP_SUMMARY,
   FULL_REPOSITORY_SUMMARY, BASIC_CONCEPT_SUMMARY, BASIC_RELATIONSHIP_SUMMARY,
   WISDOM_SUMMARY, EXTRACTION_SUMMARY, BASIC_CONCEPT_EMBEDDINGS, BASIC_RELATIONSHIP_EMBEDDINGS,
   COMPREHENSIVE_SUMMARY, TOPIC_SUMMARIES}
  \cup {EmbeddingsPath(name) : name \in Range(EMBEDDED) \cup {"knowledge_graph"}}
  \cup {MetadataPath(name) : name \in Range(EMBEDDED) \cup {"knowledge_graph"}}
  \cup {IndexPath(name) : name \in Range(EMBEDDED) \cup {"knowledge_graph"}}

Missing == [kind |-> "missing", data |-> <<>>]
Truncated == [kind |-> "empty", data |-> <<>>]

\* with open(path, 'w') as f: json.dump(value, f)
JsonDump(value) == [kind |-> "json", data |-> value]

\* json.load(f) of an existing file: the value, or JSONDecodeError on a zero-length file
JsonLoad(file) ==
  IF file.kind = "json" THEN [ok |-> TRUE, value |-> file.data, error |-> ""]
  ELSE [ok |-> FALSE, value |-> <<>>, error |-> "JSONDecodeError"]

EmptyStore == [p \in Paths |-> Missing]

\* store with the files of writes (a function on some paths) written
Written(store, writes) ==
  [p \in Paths |-> IF p \in DOMAIN writes THEN JsonDump(writes[p]) ELSE store[p]]

(***************************************************************************)
(* process_raw_extractions (utcp_kb_processor.py) and main                 *)
(* (basic_utcp_processor.py) over the documents docs, listed in the order  *)
(* the directory scan returned them.                                       *)
(***************************************************************************)
RECURSIVE ProcessDocs(_, _, _)
ProcessDocs(variant, docs, now) ==
  IF docs = <<>> THEN [concepts |-> <<>>, relationships |-> <<>>]
  ELSE LET one == IF variant = "full" THEN process_extraction(Head(docs), now)
                                       ELSE process_extraction_basic(Head(docs), now)
           rest == ProcessDocs(variant, Tail(docs), now)
       IN  [concepts |-> one.concepts \o rest.concepts,
            relationships |-> one.relationships \o rest.relationships]

\* a tally that has 1 for every key, whatever the number of its occurrences
Presence(keys) ==
  LET ks == FirstSeen(keys) IN [k \in 1..Len(ks) |-> [key |-> ks[k], count |-> 1]]

\* dict(Counter(keys)): the keys in first-seen order, each with the number of its occurrences
Counter(keys) ==
  LET ks == FirstSeen(keys)
  IN  [k \in 1..Len(ks) |-> [key |-> ks[k], count |-> Count(keys, ks[k])]]

\* create_summaries of utcp_kb_processor.py; 'repositories' of the concept summary is
\* list(set(...)), given here as the set
full_summaries(concepts, relationships, repositories, now) ==
  (FULL_CONCEPT_SUMMARY :>
     [total_concepts |-> Len(concepts),
      concept_types |-> Counter([k \in 1..Len(concepts) |-> concepts[k].type]),
      repositories |-> {concepts[k].source_repo : k \in 1..Len(concepts)},
      timestamp |-> now])
  @@ (FULL_RELATIONSHIP_SUMMARY :>
     [total_relationships |-> Len(relationships),
      relationship_types |-> Counter([k \in 1..Len(relationships) |-> relationships[k].type]),
      timestamp |-> now])
  @@ (FULL_REPOSITORY_SUMMARY :>
     [total_repositories |-> Len(repositories),
      repositories |-> [k \in 1..Len(repositories) |-> repositories[k].name],
      timestamp |-> now])

\* create_summaries of basic_utcp_processor.py
basic_summaries(concepts, relationships, now) ==
  (BASIC_CONCEPT_SUMMARY :>
     [total_concepts |-> Len(concepts),
      concept_types |-> Counter([k \in 1..Len(concepts) |-> concepts[k].type]),
      source_repositories |-> Counter([k \in 1..Len(concepts) |-> concepts[k].source_repo]),
      timestamp |-> now])
  @@ (BASIC_RELATIONSHIP_SUMMARY :>
     [total_relationships |-> Len(relationships),
      relationship_types |-> Counter([k \in 1..Len(relationships) |-> relationships[k].type]),
      source_repositories |->
        Counter([k \in 1..Len(relationships) |-> relationships[k].source_repo]),
      timestamp |-> now])

RepositoryRecords(docs) ==
  [k \in 1..Len(docs) |->
     [name |-> docs[k].repository, commit_hash |-> docs[k].commit_hash,
      file_count |-> docs[k].file_count, extraction_date |-> docs[k].timestamp]]

\* the files process_raw_extractions writes: save_processed_knowledge, then save_wisdom
process_raw_extractions(docs, now) ==
  LET res == ProcessDocs("full", docs, now)
  IN  (FULL_CONCEPTS :> res.concepts) @@ (FULL_RELATIONSHIPS :> res.relationships)
      @@ (FULL_REPOSITORIES :> RepositoryRecords(docs)) @@ (FULL_EVOLUTION :> <<>>)
      @@ full_summaries(res.concepts, res.relationships, RepositoryRecords(docs), now)
      @@ (PRINCIPLES :> extract_principles(res.concepts, now))
      @@ (PATTERNS :> extract_patterns(res.concepts, now))
      @@ (BEST_PRACTICES :> extract_best_practices(res.concepts, now))
      @@ (INSIGHTS :> extract_insights(res.relationships, now))
      @@ (WISDOM_SUMMARY :>
            [total_principles |-> Len(extract_principles(res.concepts, now)),
             total_patterns |-> Len(extract_patterns(res.concepts, now)),
             total_best_practices |-> Len(extract_best_practices(res.concepts, now)),
             total_insights |-> Len(extract_insights(res.relationships, now)),
             timestamp |-> now])

\* the files basic_utcp_processor.main writes: save_processed_knowledge, extract_wisdom_basic
process_basic(docs, hashOrder, now) ==
  LET res == ProcessDocs("basic", docs, now)
  IN  (BASIC_CONCEPTS :> res.concepts) @@ (BASIC_RELATIONSHIPS :> res.relationships)
      @@ basic_summaries(res.concepts, res.relationships, now)
      @@ (PRINCIPLES :> basic_principles(res.concepts, hashOrder, now))
      @@ (PATTERNS :> basic_patterns(res.relationships, now))

\* where a processing run of the variant persists the two collections
ConceptsPath(variant) == IF variant = "full" THEN FULL_CONCEPTS ELSE BASIC_CONCEPTS
RelationshipsPath(variant) ==
  IF variant = "full" THEN FULL_RELATIONSHIPS ELSE BASIC_RELATIONSHIPS

(***************************************************************************)
(* basic_utcp_ai_optimizer.py: the inverted indexes.  An index is a dict,  *)
(* which keeps its keys in insertion order: a list of [word, positions].   *)
(***************************************************************************)
\* load_processed_knowledge: the two collections, [] for a file that does not exist
load_processed_knowledge(store) ==
  LET Load(p) == IF store[p].kind = "missing" THEN [ok |-> TRUE, value |-> <<>>, error |-> ""]
                 ELSE JsonLoad(store[p])
  IN  [ok |-> Load(BASIC_CONCEPTS).ok /\ Load(BASIC_RELATIONSHIPS).ok,
       concepts |-> Load(BASIC_CONCEPTS).value,
       relationships |-> Load(BASIC_RELATIONSHIPS).value]

\* a filter that keeps only the words longer than 3 characters
IsLongWord(word) == Len(word) > 3

\* len(word) > 2
IsIndexed(word) == Len(word) > 2

\* the appends index[word].append(i) of the loops
\*   for i, entity in enumerate(entities): for word in text(entity).split(): if len(word) > 2
\* in loop order; texts[k] is the text of the entity at position k - 1
Appends(texts) ==
  Concat([k \in 1..Len(texts) |->
            LET words == SelectSeq(Split(texts[k]), IsIndexed)
            IN  [j \in 1..Len(words) |-> [word |-> words[j], position |-> k - 1]]])

\* an index that lists a position once for a word, however often the word occurs
IndexOnce(appends) ==
  LET words == FirstSeen([k \in 1..Len(appends) |-> appends[k].word])
      Of(word) == LET Is(a) == a.word = word IN SelectSeq(appends, Is)
  IN  [n \in 1..Len(words) |->
         LET of == Of(words[n])
         IN  [word |-> words[n],
              positions |-> FirstSeen([k \in 1..Len(of) |-> of[k].position])]]

\* the defaultdict(list) the appends leave: the words in the order of their first append,
\* each with its positions in the order they were appended
Index(appends) ==
  LET words == FirstSeen([k \in 1..Len(appends) |-> appends[k].word])
      Of(word) == LET Is(a) == a.word = word IN SelectSeq(appends, Is)
  IN  [n \in 1..Len(words) |->
         LET of == Of(words[n])
         IN  [word |-> words[n], positions |-> [k \in 1..Len(of) |-> of[k].position]]]

ConceptText(c) == Lower(c.name) \o " " \o Lower(Get(c, "description", ""))

RelationshipText(r) ==
  Lower(r.source) \o " " \o Lower(r.target) \o " " \o Lower(Get(r, "context", ""))

concept_index(concepts) ==
  Index(Appends([k \in 1..Len(concepts) |-> ConceptText(concepts[k])]))

relationship_index(relationships) ==
  Index(Appends([k \in 1..Len(relationships) |-> RelationshipText(relationships[k])]))

\* a writer that appends the index to what the file held
IndexFileExtending(old, index) == JsonDump(old.data \o index)

\* with open(path, 'w') as f: json.dump(index, f): what the file old held is discarded
IndexFile(old, index) == JsonDump(index)

\* the store after create_search_index(concepts, relationships, ".utcp-kb/ai-optimized")
create_search_index(concepts, relationships, store) ==
  [store EXCEPT ![CONCEPT_INDEX] = IndexFile(@, concept_index(concepts)),
                ![RELATIONSHIP_INDEX] = IndexFile(@, relationship_index(relationships))]

\* hashlib.sha256(text.encode('utf-8')).hexdigest(): the digest, named by its preimage
Sha256(text) == [sha256 |-> text]

\* the store after create_basic_embeddings_storage(concepts, relationships, output_dir)
create_basic_embeddings_storage(concepts, relationships, store) ==
  [store EXCEPT
     ![BASIC_CONCEPT_EMBEDDINGS] = JsonDump(
        [embeddings |->
           [k \in 1..Len(concepts) |->
              Sha256(Lower(concepts[k].name \o " " \o concepts[k].description \o " "
                             \o concepts[k].context))],
         metadata |-> [k \in 1..Len(concepts) |-> [id |-> k - 1, name |-> concepts[k].name]]]),
     ![BASIC_RELATIONSHIP_EMBEDDINGS] = JsonDump(
        [embeddings |->
           [k \in 1..Len(relationships) |->
              Sha256(Lower(relationships[k].source \o " " \o relationships[k].type \o " "
                             \o relationships[k].target \o " " \o relationships[k].context))],
         metadata |->
           [k \in 1..Len(relationships) |->
              [id |-> k - 1, source |-> relationships[k].source,
               target |-> relationships[k].target]]])]

\* the store after create_basic_summaries(concepts, relationships, output_dir);
\* 'repositories_mentioned' is list(set), given here as the set
create_basic_summaries(concepts, relationships, store, now) ==
  LET names == [k \in 1..Len(concepts) |-> concepts[k].name]
      terms == Take(MostCommon(FirstSeen(names), names), 50)
  IN  [store EXCEPT
         ![COMPREHENSIVE_SUMMARY] = JsonDump(
            [kb_overview |-> [total_concepts |-> Len(concepts),
                              total_relationships |-> Len(relationships), timestamp |-> now],
             concept_types |-> Counter([k \in 1..Len(concepts) |-> concepts[k].type]),
             relationship_types |->
               Counter([k \in 1..Len(relationships) |-> relationships[k].type]),
             repositories_mentioned |->
               {concepts[k].source_repo : k \in 1..Len(concepts)}
                 \cup {relationships[k].source_repo : k \in 1..Len(relationships)},
             key_terms |-> [k \in 1..Len(terms) |-> <<terms[k], Count(names, terms[k])>>]])]

\* main of basic_utcp_ai_optimizer.py after load_processed_knowledge
basic_optimize(concepts, relationships, store, now) ==
  create_basic_summaries(concepts, relationships,
    create_basic_embeddings_storage(concepts, relationships,
      create_search_index(concepts, relationships, store)), now)

(***************************************************************************)
(* utcp_kb_ai_optimizer.py: UTCPAIOptimizer.  An embeddings array has one  *)
(* row for each text; a row is named by the strategy that made it and the  *)
(* text it was made of.                                                    *)
(***************************************************************************)
\* load_embedding_model: the sentence-transformer model if it loads, else the TF-IDF
\* vectorizer, chosen when the optimizer is constructed
load_embedding_model(loads) == IF loads THEN "model" ELSE "tfidf"

\* embedding_model.encode(texts), or tfidf_vectorizer.fit_transform(texts).toarray(),
\* which raises ValueError (empty vocabulary) when there is no text
Embed(strategy, texts) ==
  IF strategy = "tfidf" /\ texts = <<>> THEN [raised |-> TRUE, rows |-> <<>>]
  ELSE [raised |-> FALSE,
        rows |-> [k \in 1..Len(texts) |->
                    [by |-> strategy, text |-> texts[k], unit |-> FALSE]]]

\* np.save(path, embeddings)
NpySave(rows) == [kind |-> "npy", data |-> rows]

\* an index that adds the rows as they are
IndexOfRaw(strategy, rows, old) ==
  IF strategy = "model" /\ rows # <<>> THEN [kind |-> "faiss", data |-> rows] ELSE old

\* faiss.normalize_L2(embeddings): each row scaled to norm 1
normalize_L2(rows) == [k \in 1..Len(rows) |-> [rows[k] EXCEPT !.unit = TRUE]]

\* create_faiss_index(embeddings, index_path): the file after the call, which held old.
\* normalize_L2 raises for an array without a second dimension, which encode([]) is, and
\* for the float64 array of the TF-IDF matrix; the except clause logs that and no index
\* is written
create_faiss_index(strategy, rows, old) ==
  IF strategy = "model" /\ rows # <<>> THEN [kind |-> "faiss", data |-> normalize_L2(rows)]
  ELSE old

\* the text embedded for an item of the collection
EmbeddingText(name, x) ==
  CASE name = "concepts" -> x.name \o " " \o x.description \o " " \o x.context
    [] name = "relationships" ->
         x.source \o " " \o x.type \o " " \o x.target \o " " \o x.context
    [] name = "repositories" -> x.name \o " " \o x.name \o " implementation details"
    [] OTHER -> x.name \o " " \o x.description \o " " \o Get(x, "context", "")

\* the metadata entry of the item at position k of the collection
Metadata(name, x, k, now) ==
  CASE name = "concepts" ->
         [id |-> Get(x, "id", k - 1), name |-> x.name, type |-> x.type,
          source_repo |-> x.source_repo, source_file |-> x.source_file,
          timestamp |-> x.timestamp]
    [] name = "relationships" ->
         [id |-> Get(x, "id", k - 1), source |-> x.source, target |-> x.target,
          type |-> x.type, strength |-> x.strength, source_repo |-> x.source_repo,
          source_file |-> x.source_file, timestamp |-> x.timestamp]
    [] name = "repositories" ->
         [id |-> Get(x, "id", k - 1), name |-> x.name, commit_hash |-> x.commit_hash,
          file_count |-> x.file_count, extraction_date |-> x.extraction_date,
          timestamp |-> now]
    [] OTHER ->
         [id |-> Get(x, "id", k - 1), name |-> x.name, description |-> x.description,
          source_repo |-> Get(x, "source_repo", "unknown"),
          source_file |-> Get(x, "source_file", "unknown"),
          timestamp |-> Get(x, "timestamp", now)]

\* a stage that saves the metadata of the collection in the collection's own file
process_in_place(name, store, strategy, now) ==
  LET file == store[CollectionPath(name)]
      items == file.data
  IN  IF file.kind # "json" THEN [raised |-> FALSE, at |-> "", store |-> store]
      ELSE [raised |-> FALSE, at |-> "",
            store |-> [store EXCEPT
                         ![CollectionPath(name)] = JsonDump(
                            [k \in 1..Len(items) |-> Metadata(name, items[k], k, now)])]]

\* process_concepts_for_ai, process_relationships_for_ai, process_repositories_for_ai and
\* one round of the loop of process_wisdom_for_ai: a collection whose file does not exist
\* is skipped and nothing is written for it; process_repositories_for_ai creates no index
process_for_ai(name, store, strategy, now) ==
  LET file == store[CollectionPath(name)]
      items == file.data
      embedded == Embed(strategy, [k \in 1..Len(items) |-> EmbeddingText(name, items[k])])
  IN  IF file.kind = "missing" THEN [raised |-> FALSE, at |-> "", store |-> store]
      ELSE IF ~JsonLoad(file).ok \/ embedded.raised
        THEN [raised |-> TRUE, at |-> name, store |-> store]
      ELSE [raised |-> FALSE, at |-> "",
            store |-> [store EXCEPT
                         ![EmbeddingsPath(name)] = NpySave(embedded.rows),
                         ![MetadataPath(name)] = JsonDump(
                            [k \in 1..Len(items) |-> Metadata(name, items[k], k, now)]),
                         ![IndexPath(name)] =
                            IF name = "repositories" THEN @
                            ELSE create_faiss_index(strategy, embedded.rows, @)]]

\* the process_*_for_ai calls of generate_embeddings one after the other, up to the
\* first that raises
RECURSIVE ProcessEach(_, _, _, _)
ProcessEach(names, store, strategy, now) ==
  IF names = <<>> THEN [raised |-> FALSE, at |-> "", store |-> store]
  ELSE LET one == process_for_ai(Head(names), store, strategy, now)
       IN  IF one.raised THEN one ELSE ProcessEach(Tail(names), one.store, strategy, now)

\* create_knowledge_graph_embeddings: skipped when a collection file does not exist;
\* nothing is written when no relationship has both ends among the concept names
create_knowledge_graph_embeddings(store, strategy) ==
  LET concepts == store[FULL_CONCEPTS].data
      relationships == store[FULL_RELATIONSHIPS].data
      Named(n) == \E k \in 1..Len(concepts) : concepts[k].name = n
      \* concept_map = {c['name']: c for c in concepts}: the last concept of the name
      Of(n) == concepts[CHOOSE k \in 1..Len(concepts) :
                          /\ concepts[k].name = n
                          /\ \A j \in (k + 1)..Len(concepts) : concepts[j].name # n]
      IsEdge(r) == Named(r.source) /\ Named(r.target)
      edges == SelectSeq(relationships, IsEdge)
      text(r) == "The " \o Of(r.source).type \o " '" \o r.source \o "' has a '" \o r.type
                   \o "' relationship with the " \o Of(r.target).type \o " '" \o r.target
                   \o "' in the context of " \o r.context
      embedded == Embed(strategy, [k \in 1..Len(edges) |-> text(edges[k])])
  IN  IF store[FULL_CONCEPTS].kind = "missing" \/ store[FULL_RELATIONSHIPS].kind = "missing"
        THEN [raised |-> FALSE, at |-> "", store |-> store]
      ELSE IF ~JsonLoad(store[FULL_CONCEPTS]).ok \/ ~JsonLoad(store[FULL_RELATIONSHIPS]).ok
        THEN [raised |-> TRUE, at |-> "knowledge_graph", store |-> store]
      ELSE IF edges = <<>> THEN [raised |-> FALSE, at |-> "", store |-> store]
      ELSE [raised |-> FALSE, at |-> "",
            store |-> [store EXCEPT
                         ![EmbeddingsPath("knowledge_graph")] = NpySave(embedded.rows),
                         ![MetadataPath("knowledge_graph")] = JsonDump(
                            [k \in 1..Len(edges) |->
                               [relationship_type |-> edges[k].type,
                                source |-> edges[k].source, target |-> edges[k].target,
                                strength |-> edges[k].strength,
                                source_repo |-> edges[k].source_repo]]),
                         ![IndexPath("knowledge_graph")] =
                            create_faiss_index(strategy, embedded.rows, @)]]

\* a dict of lists filled by  if key not in d: d[key] = []; d[key].append(entry) : the keys
\* in first-seen order, each with its entries in the order of the items
GroupBy(items, Key(_), Entry(_)) ==
  LET keys == FirstSeen([k \in 1..Len(items) |-> Key(items[k])])
  IN  [n \in 1..Len(keys) |->
         LET Is(x) == Key(x) = keys[n]
             hits == SelectSeq(items, Is)
         IN  [key |-> keys[n], items |-> [k \in 1..Len(hits) |-> Entry(hits[k])]]]

\* generate_overview_summary: a line for each summary file there is
generate_overview_summary(store) ==
  LET c == store[FULL_CONCEPT_SUMMARY].data
      r == store[FULL_RELATIONSHIP_SUMMARY].data
      p == store[FULL_REPOSITORY_SUMMARY].data
      w == store[WISDOM_SUMMARY].data
  IN  Join(<<"UTCP Knowledge Base Overview:">>
           \o (IF store[FULL_CONCEPT_SUMMARY].kind = "missing" THEN <<>>
               ELSE <<"- " \o Str(c.total_concepts) \o " concepts across "
                        \o Str(Len(c.concept_types)) \o " types">>)
           \o (IF store[FULL_RELATIONSHIP_SUMMARY].kind = "missing" THEN <<>>
               ELSE <<"- " \o Str(r.total_relationships) \o " relationships across "
                        \o Str(Len(r.relationship_types)) \o " types">>)
           \o (IF store[FULL_REPOSITORY_SUMMARY].kind = "missing" THEN <<>>
               ELSE <<"- " \o Str(p.total_repositories) \o " repositories analyzed">>)
           \o (IF store[WISDOM_SUMMARY].kind = "missing" THEN <<>>
               ELSE <<"- " \o Str(w.total_principles) \o " principles, "
                        \o Str(w.total_patterns) \o " patterns, "
                        \o Str(w.total_best_practices) \o " best practices, "
                        \o Str(w.total_insights) \o " insights">>),
           " ")

\* {} : the summary of a collection whose file does not exist
EmptyDict == [k \in {} |-> 0]

generate_concepts_summary(store) ==
  LET concepts == store[FULL_CONCEPTS].data
      Type(c) == c.type
      Repo(c) == c.source_repo
      Described(c) == [name |-> c.name, description |-> c.description]
      Typed(c) == [name |-> c.name, type |-> c.type]
  IN  IF store[FULL_CONCEPTS].kind = "missing" THEN EmptyDict
      ELSE [total_concepts |-> Len(concepts),
            by_type |-> GroupBy(concepts, Type, Described),
            by_repository |-> GroupBy(concepts, Repo, Typed)]

generate_relationships_summary(store) ==
  LET relationships == store[FULL_RELATIONSHIPS].data
      Type(r) == r.type
      Repo(r) == r.source_repo
      Weighed(r) == [source |-> r.source, target |-> r.target, strength |-> r.strength]
      Typed(r) == [source |-> r.source, target |-> r.target, type |-> r.type]
  IN  IF store[FULL_RELATIONSHIPS].kind = "missing" THEN EmptyDict
      ELSE [total_relationships |-> Len(relationships),
            by_type |-> GroupBy(relationships, Type, Weighed),
            by_repository |-> GroupBy(relationships, Repo, Typed)]

generate_repositories_summary(store) ==
  LET repositories == store[FULL_REPOSITORIES].data
  IN  IF store[FULL_REPOSITORIES].kind = "missing" THEN EmptyDict
      ELSE [total_repositories |-> Len(repositories),
            repository_details |->
              [k \in 1..Len(repositories) |->
                 [name |-> repositories[k].name, file_count |-> repositories[k].file_count,
                  last_extraction |-> repositories[k].extraction_date]]]

\* generate_wisdom_summary: the categories in the order of wisdom_categories
generate_wisdom_summary(store) ==
  [n \in 1..Len(wisdom_categories) |->
     LET items == store[CollectionPath(wisdom_categories[n])].data
     IN  [category |-> wisdom_categories[n], count |-> Len(items),
          items |-> [k \in 1..Len(items) |->
                       [name |-> items[k].name, description |-> items[k].description]]]]

\* the topic summaries generate_topic_summaries writes: a topic is the first word of a
\* lowered concept name
topic_summaries(concepts, now) ==
  LET named == LET HasWord(c) == Split(Lower(c.name)) # <<>> IN SelectSeq(concepts, HasWord)
      Topic(c) == Head(Split(Lower(c.name)))
      Name(c) == c.name
      topics == GroupBy(named, Topic, Name)
  IN  {[topic |-> topics[n].key, related_concepts |-> topics[n].items,
        count |-> Len(topics[n].items), timestamp |-> now] : n \in 1..Len(topics)}

\* generate_ai_optimized_summaries: the comprehensive summary, then a file for each
\* topic; the file of a topic that is not written again stays
generate_ai_optimized_summaries(store, now) ==
  LET read == {FULL_CONCEPT_SUMMARY, FULL_RELATIONSHIP_SUMMARY, FULL_REPOSITORY_SUMMARY,
               WISDOM_SUMMARY, FULL_CONCEPTS, FULL_RELATIONSHIPS, FULL_REPOSITORIES}
                \cup {CollectionPath(wisdom_categories[n]) : n \in 1..Len(wisdom_categories)}
      new == topic_summaries(store[FULL_CONCEPTS].data, now)
      old == IF store[TOPIC_SUMMARIES].kind = "directory" THEN store[TOPIC_SUMMARIES].data
             ELSE {}
      kept == {t \in old : \A n \in new : n.topic # t.topic}
  IN  IF \E p \in read : store[p].kind = "empty"
        THEN [raised |-> TRUE, at |-> "summaries", store |-> store]
      ELSE [raised |-> FALSE, at |-> "",
            store |-> [store EXCEPT
                         ![COMPREHENSIVE_SUMMARY] = JsonDump(
                            [kb_overview |-> generate_overview_summary(store),
                             concepts_summary |-> generate_concepts_summary(store),
                             relationships_summary |-> generate_relationships_summary(store),
                             repositories_summary |-> generate_repositories_summary(store),
                             wisdom_summary |-> generate_wisdom_summary(store),
                             timestamp |-> now]),
                         ![TOPIC_SUMMARIES] =
                            IF store[FULL_CONCEPTS].kind = "missing" THEN @
                            ELSE [kind |-> "directory", data |-> kept \cup new]]]

\* generate_embeddings: the stages one after the other; an exception of a stage ends the run
generate_embeddings(store, strategy, now) ==
  LET embedded == ProcessEach(EMBEDDED, store, strategy, now)
      graph == create_knowledge_graph_embeddings(embedded.store, strategy)
  IN  IF embedded.raised THEN embedded
      ELSE IF graph.raised THEN graph
      ELSE generate_ai_optimized_summaries(graph.store, now)

(***************************************************************************)
(* utcp_kb_api.py: UTCPKnowledgeBase and the /search endpoint.  A cache    *)
(* field is None or holds the loaded list.  A call returns the object as   *)
(* the call leaves it, beside its result.                                  *)
(***************************************************************************)
None == [set |-> FALSE, value |-> <<>>]
Some(v) == [set |-> TRUE, value |-> v]

\* _load_json: [] when the file does not exist, else json.load of it
load_json(store, subpath) ==
  IF store[subpath].kind = "missing" THEN [ok |-> TRUE, value |-> <<>>, error |-> ""]
  ELSE JsonLoad(store[subpath])

\* _load_indexes: the first load that raises ends the loading; the exception is swallowed
load_indexes(store) ==
  LET c == store[CONCEPT_INDEX]
      r == store[RELATIONSHIP_INDEX]
      none == [k \in {} |-> <<>>]
      concepts == IF c.kind = "json" THEN [concepts |-> c.data] ELSE none
  IN  IF c.kind = "empty" THEN none
      ELSE IF r.kind = "json" THEN concepts @@ [relationships |-> r.data]
      ELSE concepts

\* UTCPKnowledgeBase(".utcp-kb")
UTCPKnowledgeBase(store) ==
  [concepts |-> None, relationships |-> None, principles |-> None, patterns |-> None,
   indexes |-> load_indexes(store)]

\* if self._x is None: self._x = self._load_json(subpath); return self._x
\* a getter that reads the file at every call
Reloaded(obj, field, store, subpath) ==
  LET l == load_json(store, subpath)
  IN  IF l.ok
        THEN [kb |-> [obj EXCEPT ![field] = Some(l.value)], raised |-> FALSE,
              error |-> "", value |-> l.value, cached |-> FALSE]
        ELSE [kb |-> obj, raised |-> TRUE, error |-> l.error, value |-> <<>>,
              cached |-> FALSE]

Cached(obj, field, store, subpath) ==
  IF obj[field].set
    THEN [kb |-> obj, raised |-> FALSE, error |-> "", value |-> obj[field].value,
          cached |-> TRUE]
    ELSE LET l == load_json(store, subpath)
         IN  IF l.ok
               THEN [kb |-> [obj EXCEPT ![field] = Some(l.value)], raised |-> FALSE,
                     error |-> "", value |-> l.value, cached |-> FALSE]
               ELSE [kb |-> obj, raised |-> TRUE, error |-> l.error, value |-> <<>>,
                     cached |-> FALSE]

get_concepts(obj, store) == Cached(obj, "concepts", store, BASIC_CONCEPTS)
get_relationships(obj, store) == Cached(obj, "relationships", store, BASIC_RELATIONSHIPS)
get_principles(obj, store) == Cached(obj, "principles", store, PRINCIPLES)
get_patterns(obj, store) == Cached(obj, "patterns", store, PATTERNS)

\* results.append(hit); if len(results) >= limit: break -- over the matching items hits
RECURSIVE AppendUntil(_, _, _, _)
AppendUntil(hits, limit, k, results) ==
  IF k > Len(hits) THEN results
  ELSE LET r == Append(results, hits[k])
       IN  IF Len(r) >= limit THEN r ELSE AppendUntil(hits, limit, k + 1, r)

\* query_lower in x.get(field, '').lower() for one of the fields
MatchesIn(x, fields, query_lower) ==
  \E f \in fields : Contains(Lower(Get(x, f, "")), query_lower)

CONCEPT_FIELDS == {"name", "description", "context"}
RELATIONSHIP_FIELDS == {"source", "target", "context"}
WISDOM_FIELDS == {"name", "description"}

search_concepts(obj, store, query, limit) ==
  LET got == get_concepts(obj, store)
      query_lower == Lower(query)
      Hit(c) == MatchesIn(c, CONCEPT_FIELDS, query_lower)
  IN  [got EXCEPT !.value = AppendUntil(SelectSeq(got.value, Hit), limit, 1, <<>>)]

search_relationships(obj, store, query, limit) ==
  LET got == get_relationships(obj, store)
      query_lower == Lower(query)
      Hit(r) == MatchesIn(r, RELATIONSHIP_FIELDS, query_lower)
  IN  [got EXCEPT !.value = AppendUntil(SelectSeq(got.value, Hit), limit, 1, <<>>)]

\* s[:n]
Slice(s, n) ==
  IF n >= Len(s) THEN s
  ELSE IF n >= 0 THEN SubSeq(s, 1, n)
  ELSE IF Len(s) + n > 0 THEN SubSeq(s, 1, Len(s) + n)
  ELSE <<>>

\* request.args.get('limit', default=50, type=int)
DEFAULT_LIMIT == 50

\* GET /search?q=q&limit=limit: the response, and the object as the request leaves it
global_search(obj, store, q, limit) ==
  LET query == Strip(q)
      query_lower == Lower(query)
      c == search_concepts(obj, store, query, limit)
      r == search_relationships(c.kb, store, query, limit)
      p == get_principles(r.kb, store)
      t == get_patterns(p.kb, store)
      Hit(w) == MatchesIn(w, WISDOM_FIELDS, query_lower)
      Failed(at) == [kb |-> at.kb, status |-> 500, body |-> [error |-> at.error]]
  IN  IF query = ""
        THEN [kb |-> obj, status |-> 400,
              body |-> [error |-> "Query parameter 'q' is required"]]
      ELSE IF c.raised THEN Failed(c)
      ELSE IF r.raised THEN Failed(r)
      ELSE IF p.raised THEN Failed(p)
      ELSE IF t.raised THEN Failed(t)
      ELSE [kb |-> t.kb, status |-> 200,
            body |-> [concepts |-> c.value, relationships |-> r.value,
                      principles |-> Slice(SelectSeq(p.value, Hit), limit),
                      patterns |-> Slice(SelectSeq(t.value, Hit), limit)]]

(***************************************************************************)
(* The state.                                                              *)
(*   variant   the tool set in use, "full" (utcp_kb_x.py) or "basic"       *)
(*   clock     the wall clock, in seconds                                  *)
(*   raw       .utcp-kb/raw-extractions: <<repo, second>> -> document      *)
(*   extracted how many extraction runs each repository has had            *)
(*   exited    the last extraction run: the document it wrote and the      *)
(*             completion status of the process                            *)
(*   fs        the other files below .utcp-kb: path -> file                *)
(*   pending   the raw documents written since the last processing run     *)
(*   lastRun   the last processing run: how many runs there were (0, 1,    *)
(*             2 for more), its second, the documents it read in the order *)
(*             it read them, and the documents that were new to it         *)
(*   lastBuild the index builds since the collections were last written:   *)
(*             how many (0, 1, 2 for more), the index files the first of   *)
(*             them left, and the lists the last of them passed to its     *)
(*             builders                                                    *)
(*   optimizer the run of the full optimizer over the collections as they  *)
(*             are: its embedding strategy, whether it completed, the      *)
(*             stage that raised, and the collections it found no file of  *)
(*   saving    a processor that writes its files while the query object    *)
(*             is in use: the values to write, the paths still to write,   *)
(*             and whether the first of them is open for writing           *)
(*   kb        the UTCPKnowledgeBase object of the API server              *)
(*   out       what the last step returned, when it was a call on kb, a    *)
(*             request to the server or a call of a builder                *)
(*   pipeline  the run of the orchestrator (utcp_kb_system.py or           *)
(*             basic_utcp_system.py): the call and its arguments, where it *)
(*             is, the stage whose subprocess is running, and the stages   *)
(*             started and ended so far                                    *)
(***************************************************************************)
VARIABLES variant, clock, raw, extracted, exited, fs, pending, lastRun, lastBuild, optimizer,
          saving, kb, out, pipeline

vars ==
  <<variant, clock, raw, extracted, exited, fs, pending, lastRun, lastBuild, optimizer,
    saving, kb, out, pipeline>>

NoDocs == [k \in {} |-> {}]

NoRun == [n |-> 0, at |-> 0, order |-> <<>>, fresh |-> {}]

NoBuild ==
  [runs |-> 0, first |-> <<Missing, Missing>>,
   passed |-> [concepts |-> <<>>, relationships |-> <<>>]]
\* no extraction run has ended
NoExit == [of |-> <<>>, status |-> 0]
\* no optimizer has run since the collections were last written
NoOptimizer == [strategy |-> "none", completed |-> FALSE, at |-> "", missing |-> {}]

Idle == [writes |-> NoDocs, todo |-> <<>>, open |-> FALSE]

NoResponse == [call |-> "none"]

\* no run of the orchestrator
NoPipeline ==
  [call |-> "none", repos |-> {}, skip |-> {}, pc |-> "idle", running |-> "none", log |-> <<>>]

Init ==
  /\ variant \in {"full", "basic"}
  /\ clock = 0
  /\ raw = NoDocs
  /\ extracted = [repo \in Repos |-> 0]
  /\ exited = NoExit
  /\ fs = EmptyStore
  /\ pending = {}
  /\ lastRun = NoRun
  /\ lastBuild = NoBuild
  /\ optimizer = NoOptimizer
  /\ saving = Idle
  /\ kb = UTCPKnowledgeBase(EmptyStore)
  /\ out = NoResponse
  /\ pipeline = NoPipeline

\* the extraction runs there have been, of all repositories
RECURSIVE RunsOfFirst(_)
RunsOfFirst(i) == IF i = 0 THEN 0 ELSE extracted[REPO_NAMES[i]] + RunsOfFirst(i - 1)

TotalRuns == RunsOfFirst(Len(REPO_NAMES))

\* the second in which a document was written passes (seconds in which no document is
\* written are not counted)
Tick ==
  /\ TotalRuns < MaxRaw
  /\ \E k \in DOMAIN raw : k[2] = clock
  /\ clock' = clock + 1
  /\ UNCHANGED <<variant, raw, extracted, exited, fs, pending, lastRun, lastBuild, optimizer, saving,
                 kb, out, pipeline>>

\* the summary extract_all writes after the extraction of target_repos = [repo], which
\* returned the document doc
extraction_summary(repo, doc, now) ==
  [total_repositories_processed |-> 1, repositories |-> <<repo>>, timestamp |-> now,
   extraction_summary |-> <<[key |-> repo, count |-> Len(doc.extractions)]>>]

\* python utcp_kb_extractor.py --repo repo / python basic_utcp_extractor.py --repo repo:
\* the document is written to extraction_<second>.json, over a document of the same
\* second; extract_all then writes its summary; main returns, which is exit status 0
Extract(repo) ==
  /\ TotalRuns < MaxRaw
  /\ \E wt \in Worktrees(repo) : \E doc \in RepoExtractions(variant, repo, wt, clock) :
       /\ raw' = [k \in DOMAIN raw \cup {<<repo, clock>>} |->
                   IF k = <<repo, clock>> THEN doc ELSE raw[k]]
       /\ fs' = IF variant = "full"
                  THEN Written(fs, EXTRACTION_SUMMARY :> extraction_summary(repo, doc, clock))
                  ELSE fs
  /\ pending' = pending \cup {<<repo, clock>>}
  /\ extracted' = [extracted EXCEPT ![repo] = @ + 1]
  /\ exited' = [of |-> <<repo, clock>>, status |-> 0]
  /\ UNCHANGED <<variant, clock, lastRun, lastBuild, optimizer, saving, kb, out, pipeline>>

\* the orders in which iterdir() and glob() list the documents of store: the order of
\* the directory entries, which is by name in one direction or the other
NameBefore(a, b) ==
  \/ \E i, j \in 1..Len(REPO_NAMES) : i < j /\ REPO_NAMES[i] = a[1] /\ REPO_NAMES[j] = b[1]
  \/ a[1] = b[1] /\ a[2] < b[2]

Listings(store) ==
  {o \in Orders(DOMAIN store) :
     \/ \A i, j \in 1..Len(o) : i < j => NameBefore(o[i], o[j])
     \/ \A i, j \in 1..Len(o) : i < j => NameBefore(o[j], o[i])}

\* the documents of store a scan that lists them in this order reads
Documents(store, order) == [k \in 1..Len(order) |-> store[order[k]]]

RunRecord(order) ==
  [n |-> IF lastRun.n < 2 THEN lastRun.n + 1 ELSE 2, at |-> clock, order |-> order,
   fresh |-> pending]

\* python utcp_kb_processor.py; optimizer is the record of the optimizer run over the
\* collections as they are, of which there is none now
ProcessFull ==
  /\ variant = "full"
  /\ \E order \in Listings(raw) :
       /\ fs' = Written(fs, process_raw_extractions(Documents(raw, order), clock))
       /\ lastRun' = RunRecord(order)
  /\ pending' = {}
  /\ optimizer' = NoOptimizer
  /\ UNCHANGED <<variant, clock, raw, extracted, exited, lastBuild, saving, kb, out, pipeline>>

\* python basic_utcp_processor.py
ProcessBasic ==
  /\ variant = "basic"
  /\ \E order \in Listings(raw) : \E hashOrder \in Orders(Repos) :
       /\ fs' = Written(fs, process_basic(Documents(raw, order), hashOrder, clock))
       /\ lastRun' = RunRecord(order)
  /\ pending' = {}
  /\ lastBuild' = NoBuild
  /\ UNCHANGED <<variant, clock, raw, extracted, exited, optimizer, saving, kb, out, pipeline>>

Next ==
  \/ Tick
  \/ \E repo \in Repos : Extract(repo)
  \/ ProcessFull
  \/ ProcessBasic

\* the extraction and processing runs of either tool set
Spec == Init /\ [][Next]_vars

\* the documents an extraction run over repo can write in second now
DocsAt(v, repo, now) == UNION {RepoExtractions(v, repo, wt, now) : wt \in Worktrees(repo)}

\* the raw stores with at most one document per repository, written in second 0
RawStores(v) ==
  UNION {{store \in [{<<repo, 0>> : repo \in R} -> UNION {DocsAt(v, repo, 0) : repo \in R}] :
            \A repo \in R : store[<<repo, 0>>].repository = repo} : R \in SUBSET Repos}

\* one extraction run for each repository with a document in store
RunsOf(store) == [repo \in Repos |-> IF <<repo, 0>> \in DOMAIN store THEN 1 ELSE 0]

(***************************************************************************)
(* The index builder after the basic processor.                            *)
(***************************************************************************)
\* python basic_utcp_ai_optimizer.py: the index files are rebuilt from the collections
OptimizeBasic ==
  /\ variant = "basic"
  /\ LET k == load_processed_knowledge(fs)
         store == basic_optimize(k.concepts, k.relationships, fs, clock)
     IN  /\ k.ok
         /\ fs' = store
         /\ lastBuild' =
              [runs |-> IF lastBuild.runs < 2 THEN lastBuild.runs + 1 ELSE 2,
               first |-> IF lastBuild.runs = 0
                           THEN <<store[CONCEPT_INDEX], store[RELATIONSHIP_INDEX]>>
                           ELSE lastBuild.first,
               \* the lists main passed to the three builders, as the builders leave
               \* them: none assigns to a list or to an item of one
               passed |-> [concepts |-> k.concepts, relationships |-> k.relationships]]
  /\ UNCHANGED <<variant, clock, raw, extracted, exited, pending, lastRun, optimizer, saving, kb, out,
                 pipeline>>

InitIndex ==
  /\ variant = "basic"
  /\ clock = 0
  /\ raw \in RawStores("basic")
  /\ extracted = RunsOf(raw)
  /\ exited = NoExit
  /\ fs = EmptyStore
  /\ pending = {}
  /\ lastRun = NoRun
  /\ lastBuild = NoBuild
  /\ optimizer = NoOptimizer
  /\ saving = Idle
  /\ kb = UTCPKnowledgeBase(EmptyStore)
  /\ out = NoResponse
  /\ pipeline = NoPipeline

NextIndex ==
  \/ ProcessBasic
  \/ OptimizeBasic

\* processing runs and index builds of the basic tool set over a store of raw documents
SpecIndex == InitIndex /\ [][NextIndex]_vars

(***************************************************************************)
(* The optimizers after the processors, of either tool set.                *)
(***************************************************************************)
\* python utcp_kb_ai_optimizer.py: the optimizer is constructed, which chooses the
\* embedding strategy, and generate_embeddings runs
OptimizeFull(loads) ==
  /\ variant = "full"
  /\ LET strategy == load_embedding_model(loads)
         run == generate_embeddings(fs, strategy, clock)
     IN  /\ fs' = run.store
         /\ optimizer' =
              [strategy |-> strategy, completed |-> ~run.raised, at |-> run.at,
               missing |-> {name \in Range(EMBEDDED) :
                              fs[CollectionPath(name)].kind = "missing"}]
  /\ UNCHANGED <<variant, clock, raw, extracted, exited, pending, lastRun, lastBuild, saving, kb, out,
                 pipeline>>

InitOptimize ==
  /\ variant \in {"full", "basic"}
  /\ clock = 0
  /\ raw \in RawStores(variant)
  /\ extracted = RunsOf(raw)
  /\ exited = NoExit
  /\ fs = EmptyStore
  /\ pending = {}
  /\ lastRun = NoRun
  /\ lastBuild = NoBuild
  /\ optimizer = NoOptimizer
  /\ saving = Idle
  /\ kb = UTCPKnowledgeBase(EmptyStore)
  /\ out = NoResponse
  /\ pipeline = NoPipeline

NextOptimize ==
  \/ ProcessFull
  \/ ProcessBasic
  \/ \E loads \in BOOLEAN : OptimizeFull(loads)
  \/ OptimizeBasic

\* processing and optimizer runs of either tool set over a store of raw documents
SpecOptimize == InitOptimize /\ [][NextOptimize]_vars

(***************************************************************************)
(* The query object beside a processor and an optimizer that are writing   *)
(* their files.                                                            *)
(***************************************************************************)
\* the files basic_utcp_processor.main writes, in the order it writes them
BASIC_WRITES ==
  <<BASIC_CONCEPTS, BASIC_RELATIONSHIPS, BASIC_CONCEPT_SUMMARY, BASIC_RELATIONSHIP_SUMMARY,
    PRINCIPLES, PATTERNS>>

\* the files basic_utcp_ai_optimizer.main writes, in the order it writes them
OPTIMIZER_WRITES ==
  <<CONCEPT_INDEX, RELATIONSHIP_INDEX, BASIC_CONCEPT_EMBEDDINGS,
    BASIC_RELATIONSHIP_EMBEDDINGS, COMPREHENSIVE_SUMMARY>>

\* what the optimizer writes after a processor that wrote processed
optimizer_writes(processed, now) ==
  LET store == basic_optimize(processed[BASIC_CONCEPTS], processed[BASIC_RELATIONSHIPS],
                              Written(EmptyStore, processed), now)
  IN  [p \in Range(OPTIMIZER_WRITES) |-> store[p].data]

InitKB ==
  /\ variant = "basic"
  /\ clock = 0
  /\ raw \in RawStores("basic")
  /\ extracted = RunsOf(raw)
  /\ exited = NoExit
  /\ fs = EmptyStore
  /\ pending = {}
  /\ lastRun = NoRun
  /\ lastBuild = NoBuild
  /\ optimizer = NoOptimizer
  /\ \E order \in Listings(raw) : \E hashOrder \in Orders(Repos) :
       LET processed == process_basic(Documents(raw, order), hashOrder, clock)
       IN  saving = [writes |-> processed @@ optimizer_writes(processed, clock),
                     todo |-> BASIC_WRITES \o OPTIMIZER_WRITES, open |-> FALSE]
  /\ kb = UTCPKnowledgeBase(EmptyStore)
  /\ out = NoResponse
  /\ pipeline = NoPipeline

\* open(path, 'w'): the file exists and is of zero length
SaveOpen ==
  /\ saving.todo # <<>> /\ ~saving.open
  /\ fs' = [fs EXCEPT ![Head(saving.todo)] = Truncated]
  /\ saving' = [saving EXCEPT !.open = TRUE]
  /\ out' = NoResponse
  /\ UNCHANGED <<variant, clock, raw, extracted, exited, pending, lastRun, lastBuild, optimizer, kb,
                 pipeline>>

\* json.dump(value, f), and the file is closed
SaveDump ==
  /\ saving.todo # <<>> /\ saving.open
  /\ fs' = [fs EXCEPT ![Head(saving.todo)] = JsonDump(saving.writes[Head(saving.todo)])]
  /\ saving' = [saving EXCEPT !.todo = Tail(saving.todo), !.open = FALSE]
  /\ out' = NoResponse
  /\ UNCHANGED <<variant, clock, raw, extracted, exited, pending, lastRun, lastBuild, optimizer, kb,
                 pipeline>>

\* kb = UTCPKnowledgeBase(kb_path): the server starts
NewKB ==
  /\ kb' = UTCPKnowledgeBase(fs)
  /\ out' = [call |-> "UTCPKnowledgeBase", raised |-> FALSE, error |-> "",
             value |-> load_indexes(fs), cached |-> FALSE]
  /\ UNCHANGED <<variant, clock, raw, extracted, exited, fs, pending, lastRun, lastBuild,
                 optimizer, saving, pipeline>>

Returned(call, got) ==
  [call |-> call, raised |-> got.raised, error |-> got.error, value |-> got.value,
   cached |-> got.cached]

GetConcepts ==
  /\ kb' = get_concepts(kb, fs).kb
  /\ out' = Returned("get_concepts", get_concepts(kb, fs))
  /\ UNCHANGED <<variant, clock, raw, extracted, exited, fs, pending, lastRun, lastBuild,
                 optimizer, saving, pipeline>>

GetRelationships ==
  /\ kb' = get_relationships(kb, fs).kb
  /\ out' = Returned("get_relationships", get_relationships(kb, fs))
  /\ UNCHANGED <<variant, clock, raw, extracted, exited, fs, pending, lastRun, lastBuild,
                 optimizer, saving, pipeline>>

GetPrinciples ==
  /\ kb' = get_principles(kb, fs).kb
  /\ out' = Returned("get_principles", get_principles(kb, fs))
  /\ UNCHANGED <<variant, clock, raw, extracted, exited, fs, pending, lastRun, lastBuild,
                 optimizer, saving, pipeline>>

GetPatterns ==
  /\ kb' = get_patterns(kb, fs).kb
  /\ out' = Returned("get_patterns", get_patterns(kb, fs))
  /\ UNCHANGED <<variant, clock, raw, extracted, exited, fs, pending, lastRun, lastBuild,
                 optimizer, saving, pipeline>>

NextKB ==
  \/ SaveOpen
  \/ SaveDump
  \/ NewKB
  \/ GetConcepts
  \/ GetRelationships
  \/ GetPrinciples
  \/ GetPatterns

\* the calls on the query object while the basic processor and then the basic optimizer
\* write their files
SpecKB == InitKB /\ [][NextKB]_vars

(***************************************************************************)
(* The /search endpoint over a processed store.                            *)
(***************************************************************************)
Queries == {"UTCP", " contains ", "  "}

Limits == {-1, 0, 1, 2, DEFAULT_LIMIT}

InitSearch ==
  /\ variant = "basic"
  /\ clock = 0
  /\ raw \in RawStores("basic")
  /\ extracted = RunsOf(raw)
  /\ exited = NoExit
  /\ \E order \in Listings(raw) : \E hashOrder \in Orders(Repos) :
       fs = Written(EmptyStore, process_basic(Documents(raw, order), hashOrder, clock))
  /\ pending = {}
  /\ lastRun = NoRun
  /\ lastBuild = NoBuild
  /\ optimizer = NoOptimizer
  /\ saving = Idle
  /\ kb = UTCPKnowledgeBase(fs)
  /\ out = NoResponse
  /\ pipeline = NoPipeline

\* GET /search?q=q&limit=limit
GlobalSearch(q, limit) ==
  /\ LET res == global_search(kb, fs, q, limit)
     IN  /\ kb' = res.kb
         /\ out' = [call |-> "search", q |-> q, limit |-> limit, status |-> res.status,
                    body |-> res.body]
  /\ UNCHANGED <<variant, clock, raw, extracted, exited, fs, pending, lastRun, lastBuild,
                 optimizer, saving, pipeline>>

NextSearch ==
  \/ NewKB
  \/ \E q \in Queries, limit \in Limits : GlobalSearch(q, limit)

\* requests to /search of a server over the files of a basic processing run
SpecSearch == InitSearch /\ [][NextSearch]_vars

(***************************************************************************)
(* Properties.                                                             *)
(***************************************************************************)
\* the collections the last processing run of the tool set in use persisted
PersistedConcepts == fs[ConceptsPath(variant)].data
PersistedRelationships == fs[RelationshipsPath(variant)].data

\* a is the first Len(a) members of b
IsPrefix(a, b) == Len(a) <= Len(b) /\ SubSeq(b, 1, Len(a)) = a

\* the strength a relationship type stands for, in tenths
StrengthOf(type) ==
  CASE type = "co_occurrence" -> 5 [] type = "contains" -> 8 [] type = "same_file" -> 10

\* C1: every relationship a processing run persists has one of the types co_occurrence,
\* contains and same_file, and its strength is the one its type fixes: 0.5, 0.8 and 1.0
C1_StrengthFixedByType ==
  \A k \in 1..Len(PersistedRelationships) :
    /\ PersistedRelationships[k].type \in {"co_occurrence", "contains", "same_file"}
    /\ PersistedRelationships[k].strength = StrengthOf(PersistedRelationships[k].type)

\* a processing run has persisted relationships of all three types
C1_AllTypesPersisted ==
  /\ lastRun.n > 0
  /\ {PersistedRelationships[k].type : k \in 1..Len(PersistedRelationships)}
       = {"co_occurrence", "contains", "same_file"}

\* C2: every relationship a processing run persists, of whatever type, has a source
\* that differs from its target
C2_SourceDiffersFromTarget ==
  \A k \in 1..Len(PersistedRelationships) :
    PersistedRelationships[k].source # PersistedRelationships[k].target

\* C3: after an extraction run over every repository of the store followed by a
\* processing run, in a store an earlier processing run has written, the persisted
\* collections are exactly the records built from the re-run's documents
C3_RerunSupersedes ==
  (/\ lastRun.n = 2
   /\ pending = {}
   /\ \A k \in DOMAIN raw : \E f \in lastRun.fresh : f[1] = k[1])
  => LET IsFresh(k) == k \in lastRun.fresh
         rerun == ProcessDocs(variant, Documents(raw, SelectSeq(lastRun.order, IsFresh)),
                              lastRun.at)
     IN  /\ PersistedConcepts = rerun.concepts
         /\ PersistedRelationships = rerun.relationships

\* C4: after a processing run, get_concepts() and get_relationships() on a newly
\* created query object return the collections the run persisted, in the same order
C4_FreshObjectReadsPersisted ==
  lastRun.n > 0
  => /\ ~get_concepts(UTCPKnowledgeBase(fs), fs).raised
     /\ get_concepts(UTCPKnowledgeBase(fs), fs).value = PersistedConcepts
     /\ ~get_relationships(UTCPKnowledgeBase(fs), fs).raised
     /\ get_relationships(UTCPKnowledgeBase(fs), fs).value = PersistedRelationships

\* the work tree a raw document was extracted from
WorktreeOf(doc) == CHOOSE wt \in Worktrees(doc.repository) : wt.commit_hash = doc.commit_hash

\* the read or the extraction of file f fails
Fails(f, file_path) ==
  \/ ~f.readable
  \/ /\ variant = "full"
     /\ identify_content_type(file_path, f.hasSpec) = "specification"
     /\ ~f.specElems

\* the paths of the error markers among the raw documents
ErrorPaths ==
  UNION {{raw[key].extractions[k].file_path :
            k \in {j \in 1..Len(raw[key].extractions) : "error" \in DOMAIN raw[key].extractions[j]}} :
         key \in DOMAIN raw}

\* C5: every file of an extraction run yields one record, in order: an error marker
\* {file_path, error, timestamp} when its read or extraction fails, a facts record
\* otherwise, whatever failed before it; and no persisted concept or relationship comes
\* from a file with an error marker
C5_ErrorsContained ==
  /\ \A key \in DOMAIN raw :
       LET doc == raw[key]
           files == WorktreeOf(doc).files
       IN  /\ Len(doc.extractions) = Len(files)
           /\ \A k \in 1..Len(files) :
                /\ doc.extractions[k].file_path = FilePath(doc.repository, files[k])
                /\ IF Fails(files[k], FilePath(doc.repository, files[k]))
                     THEN DOMAIN doc.extractions[k] = {"file_path", "error", "timestamp"}
                     ELSE /\ "error" \notin DOMAIN doc.extractions[k]
                          /\ "content_type" \in DOMAIN doc.extractions[k]
  /\ (lastRun.n > 0 /\ pending = {})
       => /\ \A k \in 1..Len(PersistedConcepts) :
               PersistedConcepts[k].source_file \notin ErrorPaths
          /\ \A k \in 1..Len(PersistedRelationships) :
               PersistedRelationships[k].source_file \notin ErrorPaths

\* a processing run has read a document in which a file after an error marker has a
\* facts record, and has persisted a concept of that file
C5_FileAfterErrorProcessed ==
  /\ lastRun.n > 0
  /\ pending = {}
  /\ \E key \in DOMAIN raw : \E i, j \in 1..Len(raw[key].extractions) :
       /\ i < j
       /\ "error" \in DOMAIN raw[key].extractions[i]
       /\ "error" \notin DOMAIN raw[key].extractions[j]
       /\ \E k \in 1..Len(PersistedConcepts) :
            PersistedConcepts[k].source_file = raw[key].extractions[j].file_path

\* C6: get_relationships() on an object that has not loaded the relationships yet
\* returns an empty list and does not raise when the relationships file is missing or
\* of zero length
C6_EmptyOrMissingGivesEmpty ==
  (/\ out.call = "get_relationships"
   /\ ~out.cached
   /\ fs[BASIC_RELATIONSHIPS].kind \in {"missing", "empty"})
  => (~out.raised /\ out.value = <<>>)

\* C7: after a processing run, the principles a newly created query object returns
\* contain the principles 'Universal Tool Calling' and 'Direct Tool Access'
C7_SeedPrinciplesPresent ==
  lastRun.n > 0
  => /\ ~get_principles(UTCPKnowledgeBase(fs), fs).raised
     /\ \A seed \in {"Universal Tool Calling", "Direct Tool Access"} :
          \E k \in 1..Len(get_principles(UTCPKnowledgeBase(fs), fs).value) :
            get_principles(UTCPKnowledgeBase(fs), fs).value[k].name = seed

\* the members of the collection of a kind that match query q, in collection order
AllMatches(kind, q) ==
  LET fields == IF kind = "concepts" THEN CONCEPT_FIELDS
                ELSE IF kind = "relationships" THEN RELATIONSHIP_FIELDS
                ELSE WISDOM_FIELDS
      Hit(x) == MatchesIn(x, fields, Lower(Strip(q)))
  IN  SelectSeq(kb[kind].value, Hit)

\* C8: each list of a search response has at most limit entries and is a prefix of the
\* matches of its collection, in collection order
C8_SearchTruncatedAtLimit ==
  (out.call = "search" /\ out.status = 200)
  => \A kind \in {"concepts", "relationships", "principles", "patterns"} :
       /\ Len(out.body[kind]) <= out.limit
       /\ IsPrefix(out.body[kind], AllMatches(kind, out.q))

\* the words of text s the index keeps
IndexedWords(s) == {w \in Range(Split(Lower(s))) : Len(w) > 2}

\* C9: once the index is built from the persisted concepts, every word longer than 2
\* characters of the lower-cased name or description of the concept at position i has
\* position i in its posting list
C9_IndexListsEveryToken ==
  lastBuild.runs > 0
  => \A i \in 1..Len(fs[BASIC_CONCEPTS].data) :
       \A w \in IndexedWords(fs[BASIC_CONCEPTS].data[i].name)
                  \cup IndexedWords(fs[BASIC_CONCEPTS].data[i].description) :
         \E n \in 1..Len(fs[CONCEPT_INDEX].data) :
           /\ fs[CONCEPT_INDEX].data[n].word = w
           /\ (i - 1) \in Range(fs[CONCEPT_INDEX].data[n].positions)

\* an index is built from concepts with a word of exactly 3 characters and a word in
\* the text of several concepts
C9_IndexBuilt ==
  /\ lastBuild.runs > 0
  /\ \E n \in 1..Len(fs[CONCEPT_INDEX].data) : Len(fs[CONCEPT_INDEX].data[n].word) = 3
  /\ \E n \in 1..Len(fs[CONCEPT_INDEX].data) :
       Cardinality(Range(fs[CONCEPT_INDEX].data[n].positions)) > 1

\* C10: a second index build over unchanged collections leaves the index files as the
\* first build left them, and any build leaves what a build over the same collections
\* into a store without index files leaves
C10_RebuildIdempotent ==
  /\ lastBuild.runs = 2 => <<fs[CONCEPT_INDEX], fs[RELATIONSHIP_INDEX]>> = lastBuild.first
  /\ lastBuild.runs > 0
       => /\ fs[CONCEPT_INDEX] = JsonDump(concept_index(fs[BASIC_CONCEPTS].data))
          /\ fs[RELATIONSHIP_INDEX] = JsonDump(relationship_index(fs[BASIC_RELATIONSHIPS].data))

\* the index was built twice in a row over collections with entries
C10_BuiltTwice ==
  /\ lastBuild.runs = 2
  /\ fs[CONCEPT_INDEX].data # <<>>
  /\ fs[RELATIONSHIP_INDEX].data # <<>>

\* the sum of the counts of a tally
RECURSIVE SumCounts(_)
SumCounts(tally) == IF tally = <<>> THEN 0 ELSE Head(tally).count + SumCounts(Tail(tally))

\* the two summaries the last processing run of the tool set in use wrote
ConceptSummary ==
  fs[IF variant = "full" THEN FULL_CONCEPT_SUMMARY ELSE BASIC_CONCEPT_SUMMARY].data
RelationshipSummary ==
  fs[IF variant = "full" THEN FULL_RELATIONSHIP_SUMMARY ELSE BASIC_RELATIONSHIP_SUMMARY].data

\* C11: in the summaries of a processing run the per-type concept counts add up to
\* total_concepts, which is the number of concepts the run persisted, and the per-type
\* relationship counts add up to total_relationships, the number of relationships persisted
C11_SummaryCountsAddUp ==
  lastRun.n > 0
  => /\ SumCounts(ConceptSummary.concept_types) = ConceptSummary.total_concepts
     /\ ConceptSummary.total_concepts = Len(PersistedConcepts)
     /\ SumCounts(RelationshipSummary.relationship_types)
          = RelationshipSummary.total_relationships
     /\ RelationshipSummary.total_relationships = Len(PersistedRelationships)

\* a run has written summaries in which a concept type and a relationship type are
\* counted more than once and there are several types of each
C11_SeveralPerType ==
  /\ lastRun.n > 0
  /\ Len(ConceptSummary.concept_types) > 1
  /\ Len(RelationshipSummary.relationship_types) > 1
  /\ \E k \in 1..Len(ConceptSummary.concept_types) :
       ConceptSummary.concept_types[k].count > 1
  /\ \E k \in 1..Len(RelationshipSummary.relationship_types) :
       RelationshipSummary.relationship_types[k].count > 1

\* the facts records of the raw documents
FactsRecords ==
  UNION {{raw[key].extractions[k] :
            k \in {j \in 1..Len(raw[key].extractions) :
                     "error" \notin DOMAIN raw[key].extractions[j]}} : key \in DOMAIN raw}

\* the title of a facts record, where the extractor of the tool set in use puts it
TitleOf(e) == IF variant = "full" THEN Get(e.extracted_info, "title", "") ELSE Get(e, "title", "")

\* the positions of the persisted concepts of type title of the file at file_path
TitleConcepts(file_path) ==
  {k \in 1..Len(PersistedConcepts) :
     PersistedConcepts[k].type = "title" /\ PersistedConcepts[k].source_file = file_path}

\* every repository has at most one raw document
OneDocumentEach == \A a, b \in DOMAIN raw : a[1] = b[1] => a = b

\* C12: after a processing run over one document per repository, a facts record with a
\* title that was found has exactly one persisted concept of type title, named by the
\* title, and a record with an empty title or 'No Title Found' has none
C12_OneTitleConcept ==
  (lastRun.n > 0 /\ pending = {} /\ OneDocumentEach)
  => \A e \in FactsRecords :
       IF TitleOf(e) # "" /\ TitleOf(e) # "No Title Found"
         THEN /\ Cardinality(TitleConcepts(e.file_path)) = 1
              /\ \A k \in TitleConcepts(e.file_path) : PersistedConcepts[k].name = TitleOf(e)
         ELSE TitleConcepts(e.file_path) = {}

\* the positions of the persisted relationships of a type of the file at file_path
RelationshipsOf(type, file_path) ==
  {k \in 1..Len(PersistedRelationships) :
     /\ PersistedRelationships[k].type = type
     /\ PersistedRelationships[k].source_file = file_path}

\* the facts records of code files, as the full extractor writes them
CodeRecords == {e \in FactsRecords : variant = "full" /\ e.content_type = "code"}

\* C13: after a processing run of the full tool set over one document per repository, a
\* code file with the distinct functions F and the classes C has exactly one same_file
\* relationship per unordered pair of functions, |F|*(|F|-1)/2 in all, and exactly one
\* contains relationship per (class, function) of C x F, |C|*|F| in all
C13_PairsOfCodeFile ==
  (lastRun.n > 0 /\ pending = {} /\ OneDocumentEach)
  => \A e \in CodeRecords :
       LET F == Range(e.extracted_info.functions)
           C == Range(e.extracted_info.classes)
           same == RelationshipsOf("same_file", e.file_path)
           cont == RelationshipsOf("contains", e.file_path)
           Ends(k) == {PersistedRelationships[k].source, PersistedRelationships[k].target}
       IN  /\ 2 * Cardinality(same) = Cardinality(F) * (Cardinality(F) - 1)
           /\ \A f, g \in F :
                f # g => Cardinality({k \in same : Ends(k) = {f, g}}) = 1
           /\ Cardinality(cont) = Cardinality(C) * Cardinality(F)
           /\ \A c \in C, f \in F :
                Cardinality({k \in cont : /\ PersistedRelationships[k].source = c
                                          /\ PersistedRelationships[k].target = f}) = 1

\* a run has processed a code file with at least two functions and a class
C13_CodeFileProcessed ==
  /\ lastRun.n > 0 /\ pending = {} /\ OneDocumentEach
  /\ \E e \in CodeRecords :
       /\ Len(e.extracted_info.functions) > 1
       /\ Len(e.extracted_info.classes) > 0
       /\ RelationshipsOf("same_file", e.file_path) # {}
       /\ RelationshipsOf("contains", e.file_path) # {}

\* the persisted relationships of type same_file or contains, in order
StrongRelationships ==
  LET IsStrongType(r) == r.type \in {"same_file", "contains"}
  IN  SelectSeq(PersistedRelationships, IsStrongType)

\* C14: the insights a run of the full processor writes are one record per same_file or
\* contains relationship it persisted, in relationship order, each with the ends, type,
\* strength and context of its relationship, and none for a co_occurrence relationship
C14_InsightsAreStrongRelationships ==
  (variant = "full" /\ lastRun.n > 0)
  => /\ Len(fs[INSIGHTS].data) = Len(StrongRelationships)
     /\ \A k \in 1..Len(fs[INSIGHTS].data) :
          LET i == fs[INSIGHTS].data[k]
              r == StrongRelationships[k]
          IN  /\ i.name = "Relationship: " \o r.source \o " -> " \o r.target
              /\ i.type = r.type
              /\ i.strength = r.strength
              /\ i.strength > 7
              /\ i.description = r.context
              /\ i.source_file = r.source_file

\* a run of the full processor has persisted relationships of all three types, a
\* co_occurrence relationship before a contains relationship
C14_MixedRelationships ==
  /\ variant = "full" /\ lastRun.n > 0
  /\ \E j, k \in 1..Len(PersistedRelationships) :
       /\ j < k
       /\ PersistedRelationships[j].type = "co_occurrence"
       /\ PersistedRelationships[k].type = "contains"
  /\ \E k \in 1..Len(PersistedRelationships) : PersistedRelationships[k].type = "same_file"
  /\ fs[INSIGHTS].data # <<>>

\* the positions of the repository records of repo in the persisted repositories collection
RepositoryRecordsOf(repo) ==
  {k \in 1..Len(fs[FULL_REPOSITORIES].data) : fs[FULL_REPOSITORIES].data[k].name = repo}

\* C15: after the extraction runs of a repository and a processing run of the full
\* processor that follows them, the repositories collection holds as many records of the
\* repository as it had extraction runs
C15_OneRecordPerRun ==
  (variant = "full" /\ lastRun.n > 0 /\ pending = {})
  => \A repo \in Repos :
       extracted[repo] > 0 => Cardinality(RepositoryRecordsOf(repo)) = extracted[repo]

(***************************************************************************)
(* C16: a downstream stage treats a concepts or relationships file that    *)
(* does not exist as the empty collection: once an optimizer run that      *)
(* found the file missing has completed, the embeddings and the metadata   *)
(* it leaves for the collection are those of an empty collection, an array *)
(* without rows and a metadata list without entries, and the summary       *)
(* counts no item of it.                                                   *)
(***************************************************************************)
\* the summary generate_ai_optimized_summaries gives for the collection
SummaryOf(name) == fs[COMPREHENSIVE_SUMMARY].data[name \o "_summary"]

C16_MissingIsEmpty ==
  \A name \in {"concepts", "relationships"} :
    (optimizer.completed /\ name \in optimizer.missing /\ fs[CollectionPath(name)].kind = "missing")
      => /\ fs[EmbeddingsPath(name)] = NpySave(<<>>)
         /\ fs[MetadataPath(name)] = JsonDump(<<>>)
         /\ Get(SummaryOf(name), "total_" \o name, -1) = 0

(***************************************************************************)
(* C17: when an extraction run skipped at least one file because the file  *)
(* could not be read or decoded, the run ends with a completion status     *)
(* other than zero.                                                        *)
(***************************************************************************)
\* the records of the document the last extraction run wrote that mark a file skipped
\* because it could not be read
SkippedByLastRun ==
  LET IsReadError(e) == IsErrorRecord(e) /\ e.error = "PermissionError"
  IN  IF exited.of \in DOMAIN raw THEN SelectSeq(raw[exited.of].extractions, IsReadError)
      ELSE <<>>

C17_SkippedFilesFailTheRun == SkippedByLastRun # <<>> => exited.status # 0

(***************************************************************************)
(* C18: a persisted JSON document that is malformed makes the operation    *)
(* that loads it raise: a getter that loads a collection or a wisdom       *)
(* category of zero length raises, and so does the constructor when an     *)
(* index file is of zero length; none of them goes on with an empty value. *)
(***************************************************************************)
\* the file the call of the last response loaded, if it loaded one
LoadedBy(call) ==
  CASE call = "get_concepts" -> {BASIC_CONCEPTS}
    [] call = "get_relationships" -> {BASIC_RELATIONSHIPS}
    [] call = "get_principles" -> {PRINCIPLES}
    [] call = "get_patterns" -> {PATTERNS}
    [] call = "UTCPKnowledgeBase" -> {CONCEPT_INDEX, RELATIONSHIP_INDEX}
    [] OTHER -> {}

C18_MalformedJsonIsFatal ==
  (/\ out.call # "none"
   /\ ~out.cached
   /\ \E p \in LoadedBy(out.call) : fs[p].kind = "empty")
  => out.raised

(***************************************************************************)
(* C19: an optimizer that could not load the embedding model and so chose  *)
(* the TF-IDF vectorizer completes its run, and every collection there is, *)
(* an empty one too, has then been embedded by the vectorizer.             *)
(***************************************************************************)
\* the collection has been embedded by the strategy: its array has a row for each item,
\* and the strategy made each row
EmbeddedBy(name, strategy) ==
  /\ fs[EmbeddingsPath(name)].kind = "npy"
  /\ Len(fs[EmbeddingsPath(name)].data) = Len(fs[CollectionPath(name)].data)
  /\ \A k \in 1..Len(fs[EmbeddingsPath(name)].data) :
       fs[EmbeddingsPath(name)].data[k].by = strategy

C19_FallbackRunCompletes ==
  optimizer.strategy = "tfidf"
    => /\ optimizer.completed
       /\ \A name \in Range(EMBEDDED) :
            fs[CollectionPath(name)].kind = "json" => EmbeddedBy(name, "tfidf")

(***************************************************************************)
(* C20: no stage writes to the output of an earlier stage.  A processing   *)
(* run leaves the raw extraction documents as they were; an optimizer run  *)
(* (indexes, embeddings, summaries) leaves the raw documents and the       *)
(* concept, relationship, repository and wisdom collections as they were,  *)
(* the persisted documents and the lists passed to the builders.           *)
(***************************************************************************)
\* the collections the processors persist
CollectionPaths ==
  {FULL_CONCEPTS, FULL_RELATIONSHIPS, FULL_REPOSITORIES, FULL_EVOLUTION, BASIC_CONCEPTS,
   BASIC_RELATIONSHIPS, PRINCIPLES, PATTERNS, BEST_PRACTICES, INSIGHTS}

C20_StagesLeaveEarlierOutputs ==
  [][/\ (ProcessFull \/ ProcessBasic) => raw' = raw
     /\ ((\E loads \in BOOLEAN : OptimizeFull(loads)) \/ OptimizeBasic)
          => /\ raw' = raw
             /\ \A p \in CollectionPaths : fs'[p] = fs[p]
     /\ OptimizeBasic
          => lastBuild'.passed = [concepts |-> fs[BASIC_CONCEPTS].data,
                                  relationships |-> fs[BASIC_RELATIONSHIPS].data]]_vars

\* an optimizer run over collections that are not empty has written its embeddings
C20_OptimizedAfterProcessing ==
  /\ optimizer.completed
  /\ fs[FULL_CONCEPTS].data # <<>>
  /\ fs[FULL_RELATIONSHIPS].data # <<>>
  /\ fs[MetadataPath("concepts")].kind = "json"
  /\ fs[MetadataPath("concepts")].data # <<>>

(***************************************************************************)
(* C21: after a completed optimizer run, every embedded collection has a   *)
(* vector file, a similarity index and a metadata document with as many    *)
(* entries as the collection has items, and entry i of each is of item i.  *)
(***************************************************************************)
\* the three files of the collection are parallel to the collection
Parallel(name) ==
  LET items == fs[CollectionPath(name)].data
      vectors == fs[EmbeddingsPath(name)]
      metadata == fs[MetadataPath(name)]
      index == fs[IndexPath(name)]
  IN  /\ vectors.kind = "npy" /\ metadata.kind = "json" /\ index.kind = "faiss"
      /\ Len(vectors.data) = Len(items)
      /\ Len(metadata.data) = Len(items)
      /\ Len(index.data) = Len(items)
      /\ \A i \in 1..Len(items) :
           /\ vectors.data[i].text = EmbeddingText(name, items[i])
           /\ index.data[i].text = EmbeddingText(name, items[i])
           /\ metadata.data[i] = Metadata(name, items[i], i, metadata.data[i].timestamp)

C21_FilesParallelToCollection ==
  optimizer.completed
    => \A name \in Range(EMBEDDED) : fs[CollectionPath(name)].kind = "json" => Parallel(name)

(***************************************************************************)
(* C22: every vector of a similarity index was scaled to norm 1 before it  *)
(* was added: no index holds a vector that was not normalized.             *)
(***************************************************************************)
\* the similarity indexes on disk
Indexes == {p \in Paths : fs[p].kind = "faiss"}

ENTITIES == {[text |-> "UTCP", label_ |-> "ORG"], [text |-> "v1", label_ |-> "CARDINAL"]}

\* doc.ents: what a loaded model finds in a content, none without a model
EntityLists(nlp) == IF nlp THEN UNION {Orders(S) : S \in SUBSET ENTITIES} ELSE {NoEntities}

\* the facts records of the raw documents, each with the repository of its document
RepositoryFacts ==
  UNION {{[repository |-> raw[key].repository, facts |-> raw[key].extractions[k]] :
            k \in {j \in 1..Len(raw[key].extractions) :
                     ~IsErrorRecord(raw[key].extractions[j])}} : key \in DOMAIN raw}

\* the most distinct words of a content
MaxWords == 21

\* n distinct words, in one of the orders a set of them can be listed in
LETTERS == "abcdefghijklmnopqrstuvwxyz"
WordsOf(n) == [k \in 1..n |-> "term" \o Char(LETTERS, k)]
Reverse(s) == [k \in 1..Len(s) |-> s[Len(s) + 1 - k]]
Listings2(n) == {WordsOf(n), Reverse(WordsOf(n))}

\* list(set(...)) without the cut
all_key_terms(listing) == listing

\* extract_key_terms / extract_key_terms_basic on a content whose distinct matches the
\* set lists in the order listing: list(set(...))[:20]
extract_key_terms(listing) == Take(listing, KEY_TERM_CAP)

\* a facts record of a file with these key terms, as either extractor writes it
FactsWith(key_terms) ==
  [file_path |-> "UPSTREAM/python-utcp/docs/terms.txt", content_type |-> "other",
   extracted_info |-> [title |-> "No Title Found", summary |-> "", key_terms |-> key_terms],
   title |-> "Terms", summary |-> "", key_terms |-> key_terms, timestamp |-> clock]

\* the facts records a builder is called on: those of the raw documents and the one of
\* the key terms just extracted
BuilderInputs ==
  RepositoryFacts
  \cup (IF out.call = "extract_key_terms"
          THEN {[repository |-> "python-utcp", facts |-> FactsWith(out.value)]} ELSE {})

InitBuilders == InitOptimize

\* extract_key_terms on a content of n distinct words, by an extraction run of its own:
\* the order in which the run's process lists a set of strings is the run's.  previous
\* is what the run before this one returned, when it extracted from the same content
ExtractKeyTerms(n, listing) ==
  /\ LET again == out.call = "extract_key_terms" /\ out.words = n
     IN  out' = [call |-> "extract_key_terms", words |-> n,
                 value |-> extract_key_terms(listing), again |-> again,
                 previous |-> IF again THEN out.value ELSE <<>>]
  /\ UNCHANGED <<variant, clock, raw, extracted, exited, fs, pending, lastRun, lastBuild,
                 optimizer, saving, kb, pipeline>>

\* UTCPKnowledgeProcessor.extract_relationships_from_extraction on a facts record
ExtractRelationships ==
  /\ variant = "full"
  /\ \E r \in BuilderInputs :
       out' = [call |-> "extract_relationships_from_extraction", of |-> r,
               value |-> extract_relationships_from_extraction(
                           r.repository, r.facts.file_path, r.facts.content_type,
                           r.facts.extracted_info, clock)]
  /\ UNCHANGED <<variant, clock, raw, extracted, exited, fs, pending, lastRun, lastBuild,
                 optimizer, saving, kb, pipeline>>

\* extract_relationships_basic on a facts record
ExtractRelationshipsBasic ==
  /\ variant = "basic"
  /\ \E r \in BuilderInputs :
       out' = [call |-> "extract_relationships_basic", of |-> r,
               value |-> extract_relationships_basic(
                           r.repository, r.facts.file_path,
                           Get(r.facts, "key_terms", <<>>), clock)]
  /\ UNCHANGED <<variant, clock, raw, extracted, exited, fs, pending, lastRun, lastBuild,
                 optimizer, saving, kb, pipeline>>

\* UTCPKnowledgeProcessor.extract_concepts_from_extraction on a facts record
ExtractConcepts(nlp) ==
  /\ variant = "full"
  /\ \E r \in BuilderInputs : \E ents \in EntityLists(nlp) :
       out' = [call |-> "extract_concepts_from_extraction", nlp |-> nlp, of |-> r,
               value |-> extract_concepts_from_extraction(
                           r.repository, r.facts.file_path, r.facts.content_type,
                           r.facts.extracted_info, ents, clock)]
  /\ UNCHANGED <<variant, clock, raw, extracted, exited, fs, pending, lastRun, lastBuild,
                 optimizer, saving, kb, pipeline>>

\* extract_concepts_basic on a facts record
ExtractConceptsBasic ==
  /\ variant = "basic"
  /\ \E r \in BuilderInputs :
       out' = [call |-> "extract_concepts_basic", nlp |-> FALSE, of |-> r,
               value |-> extract_concepts_basic(
                           r.repository, r.facts.file_path, r.facts.content_type,
                           Get(r.facts, "title", ""), Get(r.facts, "summary", ""),
                           Get(r.facts, "key_terms", <<>>), clock)]
  /\ UNCHANGED <<variant, clock, raw, extracted, exited, fs, pending, lastRun, lastBuild,
                 optimizer, saving, kb, pipeline>>

\* paths of files below a work tree
CLASSIFIED_PATHS ==
  {"README.md", "docs/specification.md", "spec/runner.py", "tests/test_client.py",
   "src/client.py", "config.yaml", "notes.txt", "docs/design.rst"}

\* UTCPKnowledgeExtractor.identify_content_type on a path and a content in which 'spec'
\* occurs or not
IdentifyContentType(file_path, hasSpec) ==
  /\ variant = "full"
  /\ out' = [call |-> "identify_content_type", file_path |-> file_path, hasSpec |-> hasSpec,
             value |-> identify_content_type(file_path, hasSpec)]
  /\ UNCHANGED <<variant, clock, raw, extracted, exited, fs, pending, lastRun, lastBuild,
                 optimizer, saving, kb, pipeline>>

\* the content type extract_content_basic gives the file
BasicContentType(file_path, hasSpec) ==
  /\ variant = "basic"
  /\ out' = [call |-> "basic_content_type", file_path |-> file_path, hasSpec |-> hasSpec,
             value |-> basic_content_type(file_path)]
  /\ UNCHANGED <<variant, clock, raw, extracted, exited, fs, pending, lastRun, lastBuild,
                 optimizer, saving, kb, pipeline>>

NextBuilders ==
  \/ \E file_path \in CLASSIFIED_PATHS, hasSpec \in BOOLEAN :
       IdentifyContentType(file_path, hasSpec)
  \/ \E file_path \in CLASSIFIED_PATHS, hasSpec \in BOOLEAN :
       BasicContentType(file_path, hasSpec)
  \/ \E n \in 0..MaxWords : \E listing \in Listings2(n) : ExtractKeyTerms(n, listing)
  \/ \E nlp \in BOOLEAN : ExtractConcepts(nlp)
  \/ ExtractConceptsBasic
  \/ ExtractRelationships
  \/ ExtractRelationshipsBasic

\* calls of the builders on the facts records of a store of raw documents
SpecBuilders == InitBuilders /\ [][NextBuilders]_vars

(***************************************************************************)
(* C23: every concept a builder returns has one of the types title, term,  *)
(* path_component, function, class, section, entity, the concepts of the   *)
(* NLP entity path included.                                               *)
(***************************************************************************)
CONCEPT_TYPES == {"title", "term", "path_component", "function", "class", "section", "entity"}

\* a concept builder has returned
Built == out.call \in {"extract_concepts_from_extraction", "extract_concepts_basic"}

C23_ConceptTypesInEnum ==
  Built => \A i \in 1..Len(out.value) : out.value[i].type \in CONCEPT_TYPES

(***************************************************************************)
(* C24: for a file, the builder returns exactly one co_occurrence          *)
(* relationship for each unordered pair of distinct key terms of the file  *)
(* and no other co_occurrence relationship; with at most 20 key terms in a *)
(* facts record that is never more than C(20,2) = 190 of them.             *)
(***************************************************************************)
IsCoOccurrence(r) == r.type = "co_occurrence"

\* C(cap, 2)
MostCoOccurrences == (KEY_TERM_CAP * (KEY_TERM_CAP - 1)) \div 2

\* a relationship builder has returned
RelationshipsBuilt ==
  out.call \in {"extract_relationships_from_extraction", "extract_relationships_basic"}

C24_OneCoOccurrencePerPair ==
  RelationshipsBuilt =>
    LET key_terms == Range(Get(out.of.facts, "key_terms",
                               Get(out.of.facts, "extracted_info", [key_terms |-> <<>>]).key_terms))
        co == SelectSeq(out.value, IsCoOccurrence)
    IN  /\ \A k \in 1..Len(co) :
             /\ co[k].source \in key_terms /\ co[k].target \in key_terms
             /\ co[k].source # co[k].target
             /\ co[k].source_file = out.of.facts.file_path
        /\ \A a \in key_terms : \A b \in key_terms \ {a} :
             Cardinality({k \in 1..Len(co) : {co[k].source, co[k].target} = {a, b}}) = 1
        /\ Len(co) <= MostCoOccurrences

\* the builder has returned for a file of more than 20 distinct words, with all 190
\* co_occurrence relationships of its 20 key terms
C24_CappedFileBuilt ==
  /\ RelationshipsBuilt
  /\ Len(Get(out.of.facts, "key_terms", <<>>)) = KEY_TERM_CAP
  /\ Len(SelectSeq(out.value, IsCoOccurrence)) = MostCoOccurrences

(***************************************************************************)
(* C25: the content type of a file is decided in this order: 'spec' (or    *)
(* 'specification') in the path or in the content gives specification;     *)
(* else 'readme' in the path gives documentation; else 'test' in the path  *)
(* gives test; else the extension decides: a code extension gives code,    *)
(* .md and .rst documentation, .json, .yaml and .yml configuration, and    *)
(* any other extension other.                                              *)
(***************************************************************************)
Classification(file_path, hasSpec) ==
  LET p == Lower(file_path)
      suffix == Suffix(file_path)
  IN  IF Contains(p, "specification") \/ Contains(p, "spec") \/ hasSpec THEN "specification"
      ELSE IF Contains(p, "readme") THEN "documentation"
      ELSE IF Contains(p, "test") THEN "test"
      ELSE IF suffix \in CODE_SUFFIXES THEN "code"
      ELSE IF suffix \in {".md", ".rst"} THEN "documentation"
      ELSE IF suffix \in {".json", ".yaml", ".yml"} THEN "configuration"
      ELSE "other"

C25_ClassifiedInPriorityOrder ==
  out.call \in {"identify_content_type", "basic_content_type"}
    => out.value = Classification(out.file_path, out.hasSpec)

(***************************************************************************)
(* C26: for an extracted file the basic builder returns one path_component *)
(* concept for each segment of the file's path, and none named after the   *)
(* file's own name, whichever of the extensions the extractor accepts the  *)
(* file has.                                                               *)
(***************************************************************************)
\* supported_extensions of extract_from_repository_basic
SUPPORTED_EXTENSIONS ==
  {".md", ".rst", ".txt", ".py", ".ts", ".js", ".go", ".rs", ".ex", ".json", ".yaml", ".yml",
   ".toml", ".cfg", ".conf"}

IsPathComponent(c) == c.type = "path_component"

C26_FileNameIsNoPathComponent ==
  out.call = "extract_concepts_basic" =>
    LET file_path == out.of.facts.file_path
        parts == PathParts(file_path)
        named == SelectSeq(out.value, IsPathComponent)
    IN  /\ \A k \in 1..Len(named) : named[k].name \in Range(parts)
        /\ \A i \in 1..(Len(parts) - 1) :
             Len(parts[i]) > 2 =>
               Cardinality({k \in 1..Len(named) : named[k].name = parts[i]})
                 = Cardinality({j \in 1..(Len(parts) - 1) : parts[j] = parts[i]})
        /\ Suffix(file_path) \in SUPPORTED_EXTENSIONS =>
             \A k \in 1..Len(named) : named[k].name # FileName(file_path)

(***************************************************************************)
(* utcp_kb_system.py and basic_utcp_system.py: a run of the full pipeline. *)
(* A stage is a subprocess (subprocess.run with check=True): the           *)
(* orchestrator waits for it, and its return code is an input.             *)
(***************************************************************************)
STAGES == <<"extraction", "processing", "ai_optimization">>

\* the position after stage in run_full_pipeline
AfterStage(stage) ==
  IF stage = "extraction" THEN "processing"
  ELSE IF stage = "processing" THEN "ai_optimization"
  ELSE "completed"

\* a position at which the orchestrator goes on to the stage after this one although the
\* subprocess of this one failed
OnErrorContinue(stage) == AfterStage(stage)

\* except subprocess.CalledProcessError: the error is logged and raised again; neither
\* run_full_pipeline nor main catches it
OnCalledProcessError(stage) == "raised"

\* main with action "full": --skip is an option of utcp_kb_system.py only
RunFullPipeline(repos, skip) ==
  /\ pipeline.pc \in {"idle", "completed", "raised"}
  /\ variant = "basic" => skip = {}
  /\ pipeline' = [call |-> "run_full_pipeline", repos |-> repos, skip |-> skip,
                  pc |-> "extraction", running |-> "none", log |-> <<>>]
  /\ UNCHANGED <<variant, clock, raw, extracted, exited, fs, pending, lastRun, lastBuild,
                 optimizer, saving, kb, out>>

\* if not skip_<stage>: self.run_<stage>() up to subprocess.run, else the stage is skipped
EnterStage(stage) ==
  /\ pipeline.pc = stage
  /\ pipeline.running = "none"
  /\ pipeline' =
       IF stage \in pipeline.skip THEN [pipeline EXCEPT !.pc = AfterStage(stage)]
       ELSE [pipeline EXCEPT !.running = stage,
                             !.log = Append(@, [stage |-> stage, event |-> "started"])]
  /\ UNCHANGED <<variant, clock, raw, extracted, exited, fs, pending, lastRun, lastBuild,
                 optimizer, saving, kb, out>>

\* subprocess.run returns, or raises CalledProcessError for a return code other than 0
ExitStage(stage, returncode) ==
  /\ pipeline.running = stage
  /\ pipeline' =
       IF returncode = 0
         THEN [pipeline EXCEPT !.running = "none", !.pc = AfterStage(stage),
                               !.log = Append(@, [stage |-> stage, event |-> "completed"])]
         ELSE [pipeline EXCEPT !.running = "none", !.pc = OnCalledProcessError(stage),
                               !.log = Append(@, [stage |-> stage, event |-> "failed"])]
  /\ UNCHANGED <<variant, clock, raw, extracted, exited, fs, pending, lastRun, lastBuild,
                 optimizer, saving, kb, out>>

InitPipeline == Init

NextPipeline ==
  \/ \E repos \in SUBSET Repos, skip \in SUBSET Range(STAGES) : RunFullPipeline(repos, skip)
  \/ \E stage \in Range(STAGES) : EnterStage(stage)
  \/ \E stage \in Range(STAGES), returncode \in {0, 1} : ExitStage(stage, returncode)

\* runs of the full pipeline, one after another
SpecPipeline == InitPipeline /\ [][NextPipeline]_vars

(***************************************************************************)
(* C27: a run of the full pipeline starts extraction, processing and AI    *)
(* optimization in that order, each after the stage before it has ended;   *)
(* when a stage fails the failure reaches the caller, no later stage of    *)
(* the run is started and no stage is started again.                       *)
(***************************************************************************)
StageNumber(stage) == CHOOSE k \in 1..Len(STAGES) : STAGES[k] = stage

C27_StagesInOrderFailureEnds ==
  LET log == pipeline.log
  IN  /\ \A i, j \in 1..Len(log) :
           (i < j /\ log[i].event = "started" /\ log[j].event = "started")
             => StageNumber(log[i].stage) < StageNumber(log[j].stage)
      /\ \A k \in 1..Len(log) :
           /\ log[k].event = "started" /\ k > 1 => log[k - 1].event = "completed"
           /\ log[k].event # "started" =>
                k > 1 /\ log[k - 1] = [stage |-> log[k].stage, event |-> "started"]
           /\ log[k].event = "failed" => k = Len(log) /\ pipeline.pc = "raised"
      /\ pipeline.pc = "raised" => pipeline.running = "none"
      /\ pipeline.pc = "completed" => \A k \in 1..Len(log) : log[k].event # "failed"

\* the processing stage of a run failed after its extraction stage had completed
C27_ProcessingFailed ==
  /\ pipeline.pc = "raised"
  /\ pipeline.log = << [stage |-> "extraction", event |-> "started"],
                       [stage |-> "extraction", event |-> "completed"],
                       [stage |-> "processing", event |-> "started"],
                       [stage |-> "processing", event |-> "failed"] >>

(***************************************************************************)
(* C28: a UTCPKnowledgeBase object loads a collection at most once.  Once  *)
(* a getter has returned a collection, every later call of it on the same  *)
(* object returns that collection, whatever has happened to the file in    *)
(* between, also when the first call found no file and returned the empty  *)
(* collection.                                                             *)
(***************************************************************************)
GETTERS ==
  [concepts |-> "get_concepts", relationships |-> "get_relationships",
   principles |-> "get_principles", patterns |-> "get_patterns"]

\* the step makes a new object
Constructs == out'.call = "UTCPKnowledgeBase" /\ out.call # "UTCPKnowledgeBase"

\* a collection the object holds stays the one it holds, and is what its getter returns
KeepsLoaded(field) ==
  kb[field].set =>
    /\ kb'[field] = kb[field]
    /\ out'.call = GETTERS[field] => ~out'.raised /\ out'.value = kb[field].value

C28_CollectionsLoadedOnce ==
  [][Constructs \/ \A field \in DOMAIN GETTERS : KeepsLoaded(field)]_vars

\* a getter that found no file at its first call returns the empty collection again
\* although the file has been written since
C28_EmptyReturnedAfterFileWritten ==
  /\ out.call = "get_concepts" /\ out.cached /\ out.value = <<>>
  /\ fs[BASIC_CONCEPTS].kind = "json" /\ fs[BASIC_CONCEPTS].data # <<>>

(***************************************************************************)
(* C29: in an index built from a collection, position i is in the posting  *)
(* list of token t as many times as t occurs among the whitespace-         *)
(* separated tokens of the lower-cased text of entity i, not at all when   *)
(* it does not occur; no key has 2 characters or fewer; every posting list *)
(* is in non-decreasing order of position.                                 *)
(***************************************************************************)
\* index is the lexical index of the entities whose searchable texts are texts
LexicalIndexOf(index, texts) ==
  /\ \A n, m \in 1..Len(index) : index[n].word = index[m].word => n = m
  /\ \A n \in 1..Len(index) :
       LET t == index[n].word
           posting == index[n].positions
       IN  /\ Len(t) > 2
           /\ Range(posting) \subseteq 0..(Len(texts) - 1)
           /\ \A i \in 1..Len(texts) : Count(posting, i - 1) = Count(Split(Lower(texts[i])), t)
           /\ \A k \in 1..(Len(posting) - 1) : posting[k] <= posting[k + 1]
  /\ \A i \in 1..Len(texts) : \A t \in Range(Split(Lower(texts[i]))) :
       Len(t) > 2 => \E n \in 1..Len(index) : index[n].word = t

\* the searchable texts of the persisted collections
ConceptTexts ==
  [i \in 1..Len(fs[BASIC_CONCEPTS].data) |->
     fs[BASIC_CONCEPTS].data[i].name \o " " \o fs[BASIC_CONCEPTS].data[i].description]

RelationshipTexts ==
  [i \in 1..Len(fs[BASIC_RELATIONSHIPS].data) |->
     fs[BASIC_RELATIONSHIPS].data[i].source \o " " \o fs[BASIC_RELATIONSHIPS].data[i].target
       \o " " \o fs[BASIC_RELATIONSHIPS].data[i].context]

C29_PostingsCountOccurrences ==
  lastBuild.runs > 0
    => /\ LexicalIndexOf(fs[CONCEPT_INDEX].data, ConceptTexts)
       /\ LexicalIndexOf(fs[RELATIONSHIP_INDEX].data, RelationshipTexts)

\* an index is built in which a position is twice in a posting list, for a token that is
\* twice in the text of the entity, and in which a posting list has several positions
C29_TokenTwiceInText ==
  /\ lastBuild.runs > 0
  /\ \E n \in 1..Len(fs[CONCEPT_INDEX].data) :
       \E k \in 1..(Len(fs[CONCEPT_INDEX].data[n].positions) - 1) :
         fs[CONCEPT_INDEX].data[n].positions[k] = fs[CONCEPT_INDEX].data[n].positions[k + 1]
  /\ \E n \in 1..Len(fs[RELATIONSHIP_INDEX].data) :
       Cardinality(Range(fs[RELATIONSHIP_INDEX].data[n].positions)) > 1

(***************************************************************************)
(* C30: extracting the key terms of the same content twice gives the same  *)
(* list, with the same members in the same order, also for a content of    *)
(* more than 20 distinct candidate terms, so that two runs over unchanged  *)
(* repositories give the same co_occurrence relationships.                 *)
(***************************************************************************)
C30_KeyTermsDeterministic ==
  (out.call = "extract_key_terms" /\ out.again) => out.value = out.previous

====
